---------------------------- MODULE Spec2Model ----------------------------
(***************************************************************************)
(* Command-safety engine of the assistant: the policy classifier           *)
(* (src/services/commandPolicy.ts), the execute_command branch of the      *)
(* tool-call handler (src/services/gemini.ts) and the approval workflow of *)
(* the useChat hook (approveCommandRequest / denyCommandRequest).          *)
(*                                                                         *)
(* A string is a sequence of one-character strings, so that lower-casing   *)
(* and comparison are computed character by character.                     *)
(***************************************************************************)
EXTENDS Integers, Sequences, FiniteSets, Bags, TLC

VARIABLES
  polCall,          \* the execute_command call under evaluation: [command, args]
  polResponse,      \* handleFunctionCall's response to polCall, or NoResponse
  polPrevCall,      \* the call evaluated before polCall, or NoCall
  polPrevResponse,  \* the response that earlier call got
  pendingCommands,  \* useChat's pendingCommands state, updates applied
  renderedCommands, \* the pendingCommands the callbacks of the last render close over
  running,          \* approve / deny calls suspended at an await (a bag), with
                    \* the command result and the message given to sendMessage
  issued,           \* every request handed to onCommandRequest, by id
  orchExecuted,     \* the calls handleFunctionCall ran through executeCommand
  execCount,        \* per id: executeCommand invocations made by approve calls
  calls,            \* approve and deny calls so far that passed their guard
  isLoading,        \* useChat's isLoading state
  renderedLoading,  \* the isLoading the callbacks of the last render close over
  userTurn,         \* whether a turn started by the user's own sendMessage is in flight
  turnPhase,        \* where sendMessageWithVision's stream handler stands
  functionCalls,    \* the turn's functionCalls array
  functionCallSet,  \* the turn's functionCallSet (keys already collected)
  found,            \* every call shape the scans handed to addFunctionCall, in order
  pendingLogRequest,\* whether a docker logs request awaits its container name
  recentCapture,    \* hasRecentCapture(...).hasCapture for the turn's capture calls
  turnIndex,        \* index in functionCalls of the call the loop stands at
  turnPc,           \* the loop body's position for that call
  turnResponse,     \* the function response about to be sent, or NoResponse
  inFlight,         \* host-capability invocations not yet settled
  toolResults,      \* the function responses sent to the reasoning service, each
                    \* with the length of the text that came back
  commandRequests,  \* the requests handed to onCommandRequest
  notifiedCommandRequests, \* the turn's notifiedCommandRequests set
  idsGenerated,     \* number of generateId("cmd") calls so far
  turnExecuted,     \* indices of the calls for which a host capability was invoked
  lastUserMessage,  \* the last user message of the conversation, with its tests
  modelOutputs,     \* what the reasoning service may answer in the turn: the call
                    \* shapes of its responses and the lengths of its texts
  prompts,          \* the text and image messages sent to the reasoning service
  cancelled,        \* whether the reader of the turn's stream was cancelled
  now,              \* Date.now(), in milliseconds
  ticks,            \* how many times the clock has advanced
  windowSelectionCache, \* gemini.ts's windowSelectionCache, in insertion order
  cache,            \* windowAnalysis.ts's cache, in insertion order
  analyzing,        \* analyzeWindowCapture calls suspended at performAnalysis (a bag of keys)
  analysesStarted,  \* analyzeWindowCapture calls so far
  lastRead,         \* what the last read of a cache returned and what it passed over
  lastCapture,      \* what the last captureWindowWithOCR call returned, or NoCapture
  callBegun,        \* the latest analyzeWindowCapture call that missed: its key,
                    \* the cache it found, whether no other call was running
  winPc,            \* where the capture_window_with_ocr handler stands
  winArgs,          \* its args: process_name and window_title ("" when undefined)
  winCalls,         \* capture_window_with_ocr calls so far
  winListed,        \* what listWindowsByProcess returned to the call, if it was invoked
  winCacheAtListing,\* windowSelectionCache when listWindowsByProcess was invoked
  winResolved,      \* what resolveWindowSelection returned to the call
  winLive,          \* the unexpired cache entries when resolveWindowSelection ran
  winCaptures,      \* the captureWindowWithOCR invocations of the call
  winResponse       \* the call's function response, or NoResponse

polVars == <<polCall, polResponse, polPrevCall, polPrevResponse>>

chatVars ==
  <<pendingCommands, renderedCommands, running, issued, orchExecuted,
    execCount, calls, isLoading, renderedLoading, userTurn>>

turnVars ==
  <<turnPhase, functionCalls, functionCallSet, found, pendingLogRequest, recentCapture,
    turnIndex, turnPc, turnResponse, inFlight, toolResults, commandRequests,
    notifiedCommandRequests, idsGenerated, turnExecuted, lastUserMessage,
    modelOutputs, prompts, cancelled>>

clockVars == <<now, ticks, windowSelectionCache>>

analysisVars == <<cache, analyzing, analysesStarted, lastRead, lastCapture, callBegun>>

winVars ==
  <<winPc, winArgs, winCalls, winListed, winCacheAtListing, winResolved, winLive,
    winCaptures, winResponse>>

vars == <<polVars, chatVars, turnVars, clockVars, analysisVars, winVars>>

\* What the actions of one part of the program leave alone.
outsideChat == <<polVars, turnVars, clockVars, analysisVars, winVars>>

outsidePolicy == <<chatVars, turnVars, clockVars, analysisVars, winVars>>

outsideTurn == <<polVars, chatVars, clockVars, analysisVars, winVars>>

outsideCache == <<polVars, chatVars, turnVars, winVars>>

outsideWindows == <<polVars, chatVars, turnVars, analysisVars>>

-----------------------------------------------------------------------------
(* Strings                                                                 *)

LowerLetters ==
  <<"a", "b", "c", "d", "e", "f", "g", "h", "i", "j", "k", "l", "m",
    "n", "o", "p", "q", "r", "s", "t", "u", "v", "w", "x", "y", "z">>

UpperLetters ==
  <<"A", "B", "C", "D", "E", "F", "G", "H", "I", "J", "K", "L", "M",
    "N", "O", "P", "Q", "R", "S", "T", "U", "V", "W", "X", "Y", "Z">>

\* The lower-case letter of each upper-case letter, and the converse.
LowerOf ==
  [c \in {UpperLetters[i] : i \in DOMAIN UpperLetters} |->
     LowerLetters[CHOOSE i \in DOMAIN UpperLetters : UpperLetters[i] = c]]

UpperOf ==
  [c \in {LowerLetters[i] : i \in DOMAIN LowerLetters} |->
     UpperLetters[CHOOSE i \in DOMAIN LowerLetters : LowerLetters[i] = c]]

\* One character of String.prototype.toLowerCase: A-Z map to a-z, every
\* other character (digits, "-", "/", lower-case letters) is kept.
ToLowerChar(c) == IF c \in DOMAIN LowerOf THEN LowerOf[c] ELSE c

ToUpperChar(c) == IF c \in DOMAIN UpperOf THEN UpperOf[c] ELSE c

\* command.toLowerCase()
ToLowerCase(s) == [i \in DOMAIN s |-> ToLowerChar(s[i])]

ToUpperCase(s) == [i \in DOMAIN s |-> ToUpperChar(s[i])]

\* args.map((arg) => arg.toLowerCase())
LowerArgs(args) == [i \in DOMAIN args |-> ToLowerCase(args[i])]

UpperArgs(args) == [i \in DOMAIN args |-> ToUpperCase(args[i])]

-----------------------------------------------------------------------------
(* The rule table                                                          *)
(* A rule without argsPrefix carries the empty prefix: matchesRule treats  *)
(* a missing and an empty argsPrefix alike.                                *)

contextOnlyRules ==
  <<
    [command |-> <<"d", "o", "c", "k", "e", "r">>,
     argsPrefix |-> <<<<"p", "s">>>>,
     level |-> "auto", category |-> "context",
     reason |-> "Lists container status without changing state."],
    [command |-> <<"d", "o", "c", "k", "e", "r">>,
     argsPrefix |-> <<<<"p", "s">>, <<"-", "a">>>>,
     level |-> "auto", category |-> "context",
     reason |-> "Displays all containers without modifying anything."],
    [command |-> <<"d", "o", "c", "k", "e", "r">>,
     argsPrefix |-> <<<<"l", "o", "g", "s">>>>,
     level |-> "auto", category |-> "context",
     reason |-> "Returns container logs for debugging purposes only."],
    [command |-> <<"d", "o", "c", "k", "e", "r">>,
     argsPrefix |-> <<<<"s", "t", "a", "t", "s">>>>,
     level |-> "auto", category |-> "context",
     reason |-> "Shows resource usage without mutating containers."],
    [command |-> <<"d", "o", "c", "k", "e", "r">>,
     argsPrefix |-> <<<<"i", "n", "s", "p", "e", "c", "t">>>>,
     level |-> "auto", category |-> "context",
     reason |-> "Reads container or image metadata without any side effects."],
    [command |-> <<"g", "i", "t">>,
     argsPrefix |-> <<<<"s", "t", "a", "t", "u", "s">>>>,
     level |-> "auto", category |-> "context",
     reason |-> "Shows repository state without modifying files."],
    [command |-> <<"g", "i", "t">>,
     argsPrefix |-> <<<<"b", "r", "a", "n", "c", "h">>>>,
     level |-> "auto", category |-> "context",
     reason |-> "Lists branches without switching or editing."],
    [command |-> <<"g", "i", "t">>,
     argsPrefix |-> <<<<"l", "o", "g">>>>,
     level |-> "auto", category |-> "context",
     reason |-> "Reads commit history only."],
    [command |-> <<"g", "i", "t">>,
     argsPrefix |-> <<<<"s", "h", "o", "w">>>>,
     level |-> "auto", category |-> "context",
     reason |-> "Displays commit details without altering the repo."],
    [command |-> <<"g", "i", "t">>,
     argsPrefix |-> <<<<"c", "o", "n", "f", "i", "g">>, <<"-", "-", "l", "i", "s", "t">>>>,
     level |-> "auto", category |-> "context",
     reason |-> "Displays configuration without making changes."],
    [command |-> <<"k", "u", "b", "e", "c", "t", "l">>,
     argsPrefix |-> <<<<"g", "e", "t">>>>,
     level |-> "auto", category |-> "context",
     reason |-> "Fetches cluster resource information."],
    [command |-> <<"k", "u", "b", "e", "c", "t", "l">>,
     argsPrefix |-> <<<<"d", "e", "s", "c", "r", "i", "b", "e">>>>,
     level |-> "auto", category |-> "context",
     reason |-> "Reads detailed resource information only."],
    [command |-> <<"n", "p", "m">>,
     argsPrefix |-> <<<<"l", "s">>>>,
     level |-> "auto", category |-> "context",
     reason |-> "Shows dependency tree without installation."],
    [command |-> <<"n", "p", "m">>,
     argsPrefix |-> <<<<"r", "u", "n">>, <<"l", "i", "n", "t">>>>,
     level |-> "approval_required", category |-> "critical",
     reason |-> "Runs project scripts that may be long running or mutate cache."],
    [command |-> <<"n", "o", "d", "e">>,
     argsPrefix |-> <<<<"-", "-", "v", "e", "r", "s", "i", "o", "n">>>>,
     level |-> "auto", category |-> "context",
     reason |-> "Reports installed Node.js version."],
    [command |-> <<"p", "y", "t", "h", "o", "n">>,
     argsPrefix |-> <<<<"-", "-", "v", "e", "r", "s", "i", "o", "n">>>>,
     level |-> "auto", category |-> "context",
     reason |-> "Reports installed Python version."],
    [command |-> <<"p", "w", "s", "h">>,
     argsPrefix |-> <<<<"-", "C", "o", "m", "m", "a", "n", "d">>, <<"G", "e", "t", "-", "P", "r", "o", "c", "e", "s", "s">>>>,
     level |-> "auto", category |-> "context",
     reason |-> "Lists running processes only."],
    [command |-> <<"p", "o", "w", "e", "r", "s", "h", "e", "l", "l">>,
     argsPrefix |-> <<<<"-", "C", "o", "m", "m", "a", "n", "d">>, <<"G", "e", "t", "-", "P", "r", "o", "c", "e", "s", "s">>>>,
     level |-> "auto", category |-> "context",
     reason |-> "Lists running processes only."],
    [command |-> <<"c", "m", "d">>,
     argsPrefix |-> <<<<"/", "c">>, <<"t", "a", "s", "k", "l", "i", "s", "t">>>>,
     level |-> "auto", category |-> "context",
     reason |-> "Shows task list without side effects."],
    [command |-> <<"w", "m", "i", "c">>,
     argsPrefix |-> <<<<"p", "r", "o", "c", "e", "s", "s">>, <<"l", "i", "s", "t">>, <<"b", "r", "i", "e", "f">>>>,
     level |-> "auto", category |-> "context",
     reason |-> "Displays process data for diagnostics."],
    [command |-> <<"s", "y", "s", "t", "e", "m", "i", "n", "f", "o">>,
     argsPrefix |-> <<>>,
     level |-> "auto", category |-> "context",
     reason |-> "Displays system configuration information."],
    [command |-> <<"w", "h", "o", "a", "m", "i">>,
     argsPrefix |-> <<>>,
     level |-> "auto", category |-> "context",
     reason |-> "Shows current user identity only."],
    [command |-> <<"h", "o", "s", "t", "n", "a", "m", "e">>,
     argsPrefix |-> <<>>,
     level |-> "auto", category |-> "context",
     reason |-> "Displays machine hostname only."],
    [command |-> <<"l", "s">>,
     argsPrefix |-> <<>>,
     level |-> "auto", category |-> "context",
     reason |-> "Lists directory contents."],
    [command |-> <<"d", "i", "r">>,
     argsPrefix |-> <<>>,
     level |-> "auto", category |-> "context",
     reason |-> "Lists directory contents."]
  >>

criticalRules ==
  <<
    [command |-> <<"d", "o", "c", "k", "e", "r">>,
     argsPrefix |-> <<<<"s", "t", "a", "r", "t">>>>,
     level |-> "approval_required", category |-> "critical",
     reason |-> "Starts containers and changes runtime state."],
    [command |-> <<"d", "o", "c", "k", "e", "r">>,
     argsPrefix |-> <<<<"s", "t", "o", "p">>>>,
     level |-> "approval_required", category |-> "critical",
     reason |-> "Stops containers impacting running services."],
    [command |-> <<"d", "o", "c", "k", "e", "r">>,
     argsPrefix |-> <<<<"r", "e", "s", "t", "a", "r", "t">>>>,
     level |-> "approval_required", category |-> "critical",
     reason |-> "Restarts containers and can interrupt workloads."],
    [command |-> <<"d", "o", "c", "k", "e", "r">>,
     argsPrefix |-> <<<<"r", "m">>>>,
     level |-> "blocked", category |-> "forbidden",
     reason |-> "Removes containers and risks data loss."],
    [command |-> <<"d", "o", "c", "k", "e", "r">>,
     argsPrefix |-> <<<<"c", "o", "m", "p", "o", "s", "e">>, <<"d", "o", "w", "n">>>>,
     level |-> "blocked", category |-> "forbidden",
     reason |-> "docker compose down removes services and should never run automatically."],
    [command |-> <<"d", "o", "c", "k", "e", "r">>,
     argsPrefix |-> <<<<"c", "o", "m", "p", "o", "s", "e">>, <<"u", "p">>>>,
     level |-> "approval_required", category |-> "critical",
     reason |-> "Creates or modifies containers and volumes."],
    [command |-> <<"d", "o", "c", "k", "e", "r">>,
     argsPrefix |-> <<<<"c", "o", "m", "p", "o", "s", "e">>, <<"r", "m">>>>,
     level |-> "blocked", category |-> "forbidden",
     reason |-> "Removes services and volumes."],
    [command |-> <<"g", "i", "t">>,
     argsPrefix |-> <<<<"r", "e", "s", "e", "t">>>>,
     level |-> "approval_required", category |-> "critical",
     reason |-> "Potentially discards commits or changes."],
    [command |-> <<"g", "i", "t">>,
     argsPrefix |-> <<<<"c", "l", "e", "a", "n">>>>,
     level |-> "approval_required", category |-> "critical",
     reason |-> "Deletes untracked files from the working tree."],
    [command |-> <<"g", "i", "t">>,
     argsPrefix |-> <<<<"c", "h", "e", "c", "k", "o", "u", "t">>>>,
     level |-> "approval_required", category |-> "critical",
     reason |-> "Switches branches or overwrites files."],
    [command |-> <<"g", "i", "t">>,
     argsPrefix |-> <<<<"p", "u", "l", "l">>>>,
     level |-> "approval_required", category |-> "critical",
     reason |-> "Mutates local repository state."],
    [command |-> <<"n", "p", "m">>,
     argsPrefix |-> <<<<"i", "n", "s", "t", "a", "l", "l">>>>,
     level |-> "approval_required", category |-> "critical",
     reason |-> "Modifies node_modules and lockfiles."],
    [command |-> <<"n", "p", "m">>,
     argsPrefix |-> <<<<"u", "p", "d", "a", "t", "e">>>>,
     level |-> "approval_required", category |-> "critical",
     reason |-> "Upgrades dependencies and may break builds."],
    [command |-> <<"n", "p", "m">>,
     argsPrefix |-> <<<<"r", "u", "n">>>>,
     level |-> "approval_required", category |-> "critical",
     reason |-> "Runs arbitrary project scripts."],
    [command |-> <<"p", "i", "p">>,
     argsPrefix |-> <<<<"i", "n", "s", "t", "a", "l", "l">>>>,
     level |-> "approval_required", category |-> "critical",
     reason |-> "Installs Python packages and alters environment."],
    [command |-> <<"a", "p", "t">>,
     argsPrefix |-> <<>>,
     level |-> "approval_required", category |-> "critical",
     reason |-> "Installs or removes system packages."],
    [command |-> <<"b", "r", "e", "w">>,
     argsPrefix |-> <<>>,
     level |-> "approval_required", category |-> "critical",
     reason |-> "Installs or removes packages on macOS."],
    [command |-> <<"k", "u", "b", "e", "c", "t", "l">>,
     argsPrefix |-> <<>>,
     level |-> "approval_required", category |-> "critical",
     reason |-> "Cluster operations can impact production workloads."],
    [command |-> <<"t", "a", "s", "k", "k", "i", "l", "l">>,
     argsPrefix |-> <<>>,
     level |-> "approval_required", category |-> "critical",
     reason |-> "Terminates running processes."]
  >>

forbiddenCommands ==
  <<
    [command |-> <<"r", "m">>,
     argsPrefix |-> <<>>,
     level |-> "blocked", category |-> "forbidden",
     reason |-> "Deleting files is never performed automatically."],
    [command |-> <<"r", "d">>,
     argsPrefix |-> <<>>,
     level |-> "blocked", category |-> "forbidden",
     reason |-> "Removing directories is not permitted."],
    [command |-> <<"d", "e", "l">>,
     argsPrefix |-> <<>>,
     level |-> "blocked", category |-> "forbidden",
     reason |-> "Deleting files is not permitted."],
    [command |-> <<"e", "r", "a", "s", "e">>,
     argsPrefix |-> <<>>,
     level |-> "blocked", category |-> "forbidden",
     reason |-> "Deleting data is not permitted."],
    [command |-> <<"f", "o", "r", "m", "a", "t">>,
     argsPrefix |-> <<>>,
     level |-> "blocked", category |-> "forbidden",
     reason |-> "Formatting drives is destructive and disallowed."],
    [command |-> <<"s", "h", "u", "t", "d", "o", "w", "n">>,
     argsPrefix |-> <<>>,
     level |-> "blocked", category |-> "forbidden",
     reason |-> "System power operations require manual execution by the user."],
    [command |-> <<"r", "e", "b", "o", "o", "t">>,
     argsPrefix |-> <<>>,
     level |-> "blocked", category |-> "forbidden",
     reason |-> "System reboot requires explicit manual action."],
    [command |-> <<"p", "o", "w", "e", "r", "o", "f", "f">>,
     argsPrefix |-> <<>>,
     level |-> "blocked", category |-> "forbidden",
     reason |-> "Powering off the machine is never automated."],
    [command |-> <<"m", "k", "f", "s">>,
     argsPrefix |-> <<>>,
     level |-> "blocked", category |-> "forbidden",
     reason |-> "Creating filesystems is destructive."],
    [command |-> <<"d", "i", "s", "k", "p", "a", "r", "t">>,
     argsPrefix |-> <<>>,
     level |-> "blocked", category |-> "forbidden",
     reason |-> "Disk partition changes are disallowed."]
  >>

allRules == forbiddenCommands \o criticalRules \o contextOnlyRules

-----------------------------------------------------------------------------
(* The classifier                                                          *)

\* matchesRule with the argument-prefix comparison left out.
matchesRule_CommandOnly(rule, command, args) == rule.command = command

matchesRule(rule, command, args) ==
  IF rule.command # command THEN FALSE
  ELSE IF Len(rule.argsPrefix) = 0 THEN TRUE
  ELSE IF Len(rule.argsPrefix) > Len(args) THEN FALSE
  ELSE \A i \in 1..Len(rule.argsPrefix) : rule.argsPrefix[i] = args[i]

\* A reason is a text and the command spliced into it (empty for a rule's
\* fixed text).  notes is undefined for every rule and is left out.
buildDecision(rule) ==
  [level |-> rule.level,
   reason |-> [text |-> rule.reason, command |-> <<>>],
   category |-> rule.category,
   suggestedConfirmation |->
     IF rule.level = "approval_required"
       THEN "Explain why this command is needed and wait for the user to approve before running it."
       ELSE "undefined"]

\* defaultDecision letting an unlisted command run without approval.
defaultDecision_Auto(command) ==
  [level |-> "auto",
   reason |-> [text |-> "No explicit policy found for '${command}'. Defaulting to user approval.",
               command |-> command],
   category |-> "context",
   suggestedConfirmation |-> "undefined"]

defaultDecision(command) ==
  [level |-> "approval_required",
   reason |-> [text |-> "No explicit policy found for '${command}'. Defaulting to user approval.",
               command |-> command],
   category |-> "critical",
   suggestedConfirmation |->
     "Describe what this command will do and ask the user to approve it before execution."]

\* allRules.find(...): the index of the first matching rule, 0 when none.
findRule(command, args) ==
  LET matching == {i \in DOMAIN allRules : matchesRule(allRules[i], command, args)}
  IN  IF matching = {} THEN 0
      ELSE CHOOSE i \in matching : \A j \in matching : i <= j

\* evaluateCommandPolicy matching the command as typed (no toLowerCase).
evaluateCommandPolicy_RawCommand(command, args) ==
  LET normalizedArgs == LowerArgs(args)
      matchedRule == findRule(command, normalizedArgs)
  IN  IF matchedRule # 0
        THEN buildDecision(allRules[matchedRule])
        ELSE defaultDecision(command)

\* evaluateCommandPolicy matching the arguments as typed.
evaluateCommandPolicy_RawArgs(command, args) ==
  LET normalizedCommand == ToLowerCase(command)
      matchedRule == findRule(normalizedCommand, args)
  IN  IF matchedRule # 0
        THEN buildDecision(allRules[matchedRule])
        ELSE defaultDecision(normalizedCommand)

evaluateCommandPolicy(command, args) ==
  LET normalizedCommand == ToLowerCase(command)
      normalizedArgs == LowerArgs(args)
      matchedRule == findRule(normalizedCommand, normalizedArgs)
  IN  IF matchedRule # 0
        THEN buildDecision(allRules[matchedRule])
        ELSE defaultDecision(normalizedCommand)

isContextOnlyCommand(command, args) ==
  evaluateCommandPolicy(command, args).level = "auto"

-----------------------------------------------------------------------------
(* handleFunctionCall, case "execute_command"                              *)
(* kind tells the three shapes of the response apart: "blocked"            *)
(* (blocked: true), "needsApproval" (needsApproval: true) and "output"     *)
(* (stdout/stderr/exit_code, returned only after executeCommand was        *)
(* invoked).  host is what the host capability does when invoked: it       *)
(* succeeds ("ok"), reports failure ("fail") or throws ("throw").          *)

HostOutcomes == {"ok", "fail", "throw"}

HostError_Dropped(host) == [text |-> "null", command |-> <<>>]

\* The error field of an execution's response: cmdResult.error || null, or
\* the thrown error's message.  An error is a text and the command in it.
HostError(host) ==
  [text |-> IF host = "ok" THEN "null"
            ELSE IF host = "fail" THEN "cmdResult.error"
            ELSE "error.message",
   command |-> <<>>]

\* handleFunctionCall running a command that needs approval straight away
\* (the approval_required return left out).
handleFunctionCall_NoApprovalGate(command, args, host, requestId) ==
  LET policyDecision == evaluateCommandPolicy(command, args)
  IN  IF policyDecision.level = "blocked"
        THEN [kind |-> "blocked", success |-> FALSE, command |-> command,
              args |-> args, policy |-> policyDecision, request_id |-> requestId,
              error |-> policyDecision.reason]
      ELSE [kind |-> "output", success |-> (host = "ok"), command |-> command,
            args |-> args, policy |-> policyDecision, request_id |-> 0,
            error |-> HostError(host)]

\* requestId is what generateId("cmd") returns when it is called;
\* request_id 0 stands for a response without that field.
handleFunctionCall(command, args, host, requestId) ==
  LET policyDecision == evaluateCommandPolicy(command, args)
  IN  IF policyDecision.level = "blocked"
        THEN [kind |-> "blocked", success |-> FALSE, command |-> command,
              args |-> args, policy |-> policyDecision, request_id |-> requestId,
              error |-> policyDecision.reason]
      ELSE IF policyDecision.level = "approval_required"
        THEN [kind |-> "needsApproval", success |-> FALSE, command |-> command,
              args |-> args, policy |-> policyDecision, request_id |-> requestId,
              error |-> policyDecision.reason]
      ELSE [kind |-> "output", success |-> (host = "ok"), command |-> command,
            args |-> args, policy |-> policyDecision, request_id |-> 0,
            error |-> HostError(host)]

\* Whether handling the call invoked executeCommand (line 758).
invokedExecuteCommand(response) == response.kind = "output"

-----------------------------------------------------------------------------
(* Inputs of the classifier                                                *)

S_docker == <<"d", "o", "c", "k", "e", "r">>
S_git == <<"g", "i", "t">>
S_npm == <<"n", "p", "m">>
S_kubectl == <<"k", "u", "b", "e", "c", "t", "l">>
S_ls == <<"l", "s">>
S_systeminfo == <<"s", "y", "s", "t", "e", "m", "i", "n", "f", "o">>
S_flibbertigibbet == <<"f", "l", "i", "b", "b", "e", "r", "t", "i", "g", "i", "b", "b", "e", "t">>
S_rmdir == <<"r", "m", "d", "i", "r">>
S_curl == <<"c", "u", "r", "l">>
S_ps == <<"p", "s">>
S_dash_a == <<"-", "a">>
S_logs == <<"l", "o", "g", "s">>
S_stats == <<"s", "t", "a", "t", "s">>
S_status == <<"s", "t", "a", "t", "u", "s">>
S_start == <<"s", "t", "a", "r", "t">>
S_stop == <<"s", "t", "o", "p">>
S_rm == <<"r", "m">>
S_compose == <<"c", "o", "m", "p", "o", "s", "e">>
S_down == <<"d", "o", "w", "n">>
S_reset == <<"r", "e", "s", "e", "t">>
S_hard == <<"-", "-", "h", "a", "r", "d">>
S_clean == <<"c", "l", "e", "a", "n">>
S_fd == <<"-", "f", "d">>
S_install == <<"i", "n", "s", "t", "a", "l", "l">>
S_get == <<"g", "e", "t">>
S_x == <<"x">>
S_rf == <<"-", "r", "f">>

MaxArgs == 2

RECURSIVE Casings(_)
\* Every letter-casing of s.
Casings(s) ==
  IF s = <<>> THEN {<<>>}
  ELSE {<<c>> \o t : c \in {Head(s), ToUpperChar(Head(s))}, t \in Casings(Tail(s))}

SeqsUpTo(S, n) == UNION {[1..k -> S] : k \in 0..n}

RuleSet(rules) == {rules[i] : i \in DOMAIN rules}

ForbiddenNames == {r.command : r \in RuleSet(forbiddenCommands)}

RuleNames == {r.command : r \in RuleSet(allRules)}

UnknownNames == {S_flibbertigibbet, S_rmdir, S_curl}

\* The argument words the rules of a command mention, as the table writes
\* them, and a few words no rule mentions.
RuleArgTokens(command) ==
  UNION {{r.argsPrefix[i] : i \in DOMAIN r.argsPrefix} :
           r \in {q \in RuleSet(allRules) : q.command = command}}

ExtraArgTokens(command) ==
  {S_x} \cup (IF command = S_git THEN {S_hard, S_fd} ELSE {})
        \cup (IF command \in ForbiddenNames THEN {S_rf} ELSE {})
        \cup (IF command \in UnknownNames THEN {S_ps, S_rm} ELSE {})

ArgLists(command) ==
  SeqsUpTo(RuleArgTokens(command) \cup ExtraArgTokens(command), MaxArgs)

\* Each rule's own command and argument prefix, as the table writes them.
RuleInputs == {[command |-> r.command, args |-> r.argsPrefix] : r \in RuleSet(allRules)}

\* Forbidden names in every letter-casing, the other names as written.
PolicyInputs ==
  RuleInputs \cup
  UNION {{[command |-> c, args |-> a] : c \in Casings(n), a \in ArgLists(n)} :
           n \in ForbiddenNames}
  \cup
  UNION {{[command |-> n, args |-> a] : a \in ArgLists(n)} :
           n \in (RuleNames \ ForbiddenNames) \cup UnknownNames}

\* The same call in other letter-casings.
Recasings(call) ==
  {call,
   [command |-> ToLowerCase(call.command), args |-> LowerArgs(call.args)],
   [command |-> ToUpperCase(call.command), args |-> UpperArgs(call.args)],
   [command |-> ToUpperCase(call.command), args |-> call.args]}

NoResponse == [kind |-> "none"]

Call(command, args) == [command |-> command, args |-> args]

-----------------------------------------------------------------------------
(* The approval workflow of useChat                                        *)
(*                                                                         *)
(* setPendingCommands is always given an updater, which React applies to   *)
(* the latest state: pendingCommands.  approveCommandRequest and           *)
(* denyCommandRequest are useCallback closures over the pendingCommands of *)
(* the render that created them: renderedCommands, which a render brings   *)
(* up to date.                                                             *)

MaxRequests == 1

MaxCalls == 2

RequestIds == 1..MaxRequests

\* The execute_command calls a turn may hold.
CommandCases ==
  {Call(S_docker, <<S_ps>>),
   Call(S_flibbertigibbet, <<>>),
   Call(ToUpperCase(S_rm), <<S_rf, S_x>>)}

NoRequest == [id |-> 0]

\* pendingCommands.find((item) => item.id === requestId)
FindRequest(commands, requestId) ==
  IF \E i \in DOMAIN commands : commands[i].id = requestId
    THEN commands[CHOOSE i \in DOMAIN commands :
                    /\ commands[i].id = requestId
                    /\ \A j \in DOMAIN commands : commands[j].id = requestId => i <= j]
    ELSE NoRequest

StatusOf(commands, requestId) ==
  IF FindRequest(commands, requestId).id = 0 THEN "absent"
  ELSE FindRequest(commands, requestId).status

\* handleCommandRequest: merge into the item of the same id, else append.
handleCommandRequest(prev, request) ==
  IF \E i \in DOMAIN prev : prev[i].id = request.id
    THEN LET existingIndex == CHOOSE i \in DOMAIN prev :
                                /\ prev[i].id = request.id
                                /\ \A j \in DOMAIN prev : prev[j].id = request.id => i <= j
         IN  [prev EXCEPT ![existingIndex] = request]
    ELSE Append(prev, request)

\* A request handed over as pending whatever the response says.
NewRequest_AlwaysPending(response) ==
  [id |-> response.request_id,
   command |-> response.command,
   args |-> response.args,
   policy |-> response.policy,
   status |-> "pending",
   result |-> "undefined",
   error |-> IF response.kind = "needsApproval" THEN "undefined" ELSE "policy.reason"]

\* The request sendMessageWithVision hands to onCommandRequest for a
\* needsApproval or blocked response (result and error absent: "undefined").
NewRequest(response) ==
  [id |-> response.request_id,
   command |-> response.command,
   args |-> response.args,
   policy |-> response.policy,
   status |-> IF response.kind = "needsApproval" THEN "pending" ELSE "blocked",
   result |-> "undefined",
   error |-> IF response.kind = "needsApproval" THEN "undefined" ELSE "policy.reason"]

\* prev.map((item) => item.id === requestId ? {...item, status, error: undefined} : item)
SetStatus(prev, requestId, status) ==
  [i \in DOMAIN prev |->
     IF prev[i].id = requestId
       THEN [prev[i] EXCEPT !.status = status, !.error = "undefined"]
       ELSE prev[i]]

\* The two updates that end an execution: the try branch stores the result
\* (error: result.error || undefined), the catch branch only the message.
SetExecuted(prev, requestId, host) ==
  [i \in DOMAIN prev |->
     IF prev[i].id = requestId
       THEN IF host = "throw"
              THEN [prev[i] EXCEPT !.status = "executed", !.error = "error.message"]
              ELSE [prev[i] EXCEPT !.status = "executed",
                                   !.result = host,
                                   !.error = IF host = "fail" THEN "result.error"
                                                              ELSE "undefined"]
       ELSE prev[i]]

\* prev.filter((item) => item.id !== requestId)
RemoveRequest(prev, requestId) ==
  SelectSeq(prev, LAMBDA item : item.id # requestId)

\* The guards of the two callbacks, on the request the closure finds.
ApproveReturnsEarly(request) ==
  request.id = 0 \/ request.status = "executed" \/ request.status = "executing"

DenyReturnsEarly(request) ==
  request.id = 0 \/ request.status = "executed" \/ request.status = "denied"

\* The message approveCommandRequest passes to sendMessage once
\* executeCommand has settled: the try branch sends the same text whatever
\* the result holds, the catch branch the failure text.
\* sendMessage's first line, for the isLoading its closure holds: the
\* call returns without submitting ("skipped") or goes on to a turn.
SendMessageGuard(loading) == IF loading THEN "skipped" ELSE "none"

ApproveMessage(host) ==
  IF host = "throw" THEN "Command execution failed" ELSE "Command executed successfully"

ChatInit ==
  /\ pendingCommands = <<>>
  /\ renderedCommands = <<>>
  /\ running = EmptyBag
  /\ issued = <<>>
  /\ orchExecuted = {}
  /\ execCount = [id \in RequestIds |-> 0]
  /\ calls = 0
  /\ isLoading = FALSE
  /\ renderedLoading = FALSE
  /\ userTurn = FALSE

\* A sendMessage call is between setIsLoading(true) and its finally block.
TurnInFlight ==
  \/ userTurn
  \/ \E c \in BagToSet(running) : c.at = "sendMessage" /\ c.outcome = "none"

\* The user submits a message: sendMessage passes its isLoading guard and
\* sets isLoading.
UserSendsMessage ==
  /\ ~userTurn
  /\ ~renderedLoading
  /\ userTurn' = TRUE
  /\ isLoading' = TRUE
  /\ UNCHANGED <<pendingCommands, renderedCommands, running, issued, orchExecuted,
                 execCount, calls, renderedLoading>>
  /\ UNCHANGED outsideChat

\* The user's sendMessage reaches its finally block: setIsLoading(false).
UserTurnEnds ==
  /\ userTurn
  /\ userTurn' = FALSE
  /\ isLoading' = FALSE
  /\ UNCHANGED <<pendingCommands, renderedCommands, running, issued, orchExecuted,
                 execCount, calls, renderedLoading>>
  /\ UNCHANGED outsideChat

\* sendMessageWithVision handles one execute_command call of a turn: the
\* call runs at once (auto) or a request is handed to onCommandRequest.
OrchestratorHandlesCall ==
  /\ TurnInFlight
  /\ \E call \in CommandCases, host \in HostOutcomes :
       \* the host capability acts only when it is invoked
       /\ (~isContextOnlyCommand(call.command, call.args)) => (host = "ok")
       /\ LET requestId == Len(issued) + 1
              response == handleFunctionCall(call.command, call.args, host, requestId)
          IN  IF response.kind \in {"needsApproval", "blocked"}
             THEN /\ Len(issued) < MaxRequests
                  /\ pendingCommands' =
                       handleCommandRequest(pendingCommands, NewRequest(response))
                  /\ issued' = Append(issued, NewRequest(response))
                  /\ UNCHANGED orchExecuted
             ELSE /\ invokedExecuteCommand(response)
                  /\ orchExecuted' = orchExecuted \cup {call}
                  /\ UNCHANGED <<pendingCommands, issued>>
  /\ UNCHANGED <<renderedCommands, running, execCount, calls, isLoading,
                 renderedLoading, userTurn>>
  /\ UNCHANGED outsideChat

\* React renders: the callbacks now close over the current state.
Render ==
  /\ renderedCommands # pendingCommands \/ renderedLoading # isLoading
  /\ renderedCommands' = pendingCommands
  /\ renderedLoading' = isLoading
  /\ UNCHANGED <<pendingCommands, running, issued, orchExecuted, execCount, calls,
                 isLoading, userTurn>>
  /\ UNCHANGED outsideChat

NothingRan == [command |-> <<>>, args |-> <<>>]

\* executeCommand invoked without the request's argument list.
ExecutedByApprove_NoArgs(request) ==
  [command |-> request.command, args |-> <<>>]

\* executeCommand(request.command, request.args || []): what the approve
\* callback hands to the host, from the request its closure found.
ExecutedByApprove(request) ==
  [command |-> request.command, args |-> request.args]

\* approveCommandRequest(requestId) up to its first await: the guard, the
\* executing update and the invocation of executeCommand.
ApproveCommandRequest(requestId) ==
  /\ LET request == FindRequest(renderedCommands, requestId)
     IN  IF ApproveReturnsEarly(request)
           THEN UNCHANGED <<pendingCommands, running, execCount, calls>>
           ELSE /\ calls < MaxCalls
                /\ calls' = calls + 1
                /\ pendingCommands' = SetStatus(pendingCommands, requestId, "executing")
                /\ execCount' = [execCount EXCEPT ![requestId] = @ + 1]
                /\ running' = running (+) SetToBag({[op |-> "approve", id |-> requestId,
                                                     at |-> "executeCommand",
                                                     ran |-> ExecutedByApprove(request),
                                                     result |-> "none",
                                                     message |-> "none",
                                                     outcome |->
                                                       SendMessageGuard(renderedLoading)]})
  /\ UNCHANGED <<renderedCommands, issued, orchExecuted, isLoading, renderedLoading,
                 userTurn>>
  /\ UNCHANGED outsideChat

\* executeCommand settles: the executed update, then sendMessage is called
\* and awaited.  The sendMessage of the callback's render returns at once
\* when its isLoading is true (the outcome the call carries since it was
\* made); otherwise it sets isLoading and starts a turn.
ExecuteCommandSettles ==
  /\ \E c \in BagToSet(running), host \in HostOutcomes :
       /\ c.at = "executeCommand"
       /\ pendingCommands' = SetExecuted(pendingCommands, c.id, host)
       /\ running' = (running (-) SetToBag({c}))
                       (+) SetToBag({[c EXCEPT !.at = "sendMessage",
                                               !.result = host,
                                               !.message = ApproveMessage(host)]})
       /\ isLoading' = (isLoading \/ c.outcome = "none")
  /\ UNCHANGED <<renderedCommands, issued, orchExecuted, execCount, calls,
                 renderedLoading, userTurn>>
  /\ UNCHANGED outsideChat

\* denyCommandRequest(requestId) up to its await of sendMessage.
DenyCommandRequest(requestId) ==
  /\ LET request == FindRequest(renderedCommands, requestId)
     IN  IF DenyReturnsEarly(request)
           THEN UNCHANGED <<pendingCommands, running, calls, isLoading>>
           ELSE /\ calls < MaxCalls
                /\ calls' = calls + 1
                /\ pendingCommands' = SetStatus(pendingCommands, requestId, "denied")
                /\ running' = running (+) SetToBag({[op |-> "deny", id |-> requestId,
                                                     at |-> "sendMessage",
                                                     ran |-> NothingRan,
                                                     result |-> "none",
                                                     message |-> "Command was denied",
                                                     outcome |->
                                                       SendMessageGuard(renderedLoading)]})
                /\ isLoading' = (isLoading \/ ~renderedLoading)
  /\ UNCHANGED <<renderedCommands, issued, orchExecuted, execCount, renderedLoading,
                 userTurn>>
  /\ UNCHANGED outsideChat

\* The turn a sendMessage of an approve or deny call started ends: the
\* message went to the reasoning service and was answered, or
\* sendMessageWithVision threw and the catch block took the error; the
\* finally block clears isLoading.
SendMessageSettles ==
  /\ \E c \in BagToSet(running), outcome \in {"sent", "failed"} :
       /\ c.at = "sendMessage"
       /\ c.outcome = "none"
       /\ running' = (running (-) SetToBag({c}))
                       (+) SetToBag({[c EXCEPT !.outcome = outcome]})
  /\ isLoading' = FALSE
  /\ UNCHANGED <<pendingCommands, renderedCommands, issued, orchExecuted, execCount,
                 calls, renderedLoading, userTurn>>
  /\ UNCHANGED outsideChat

\* The awaited sendMessage of an approve or deny call has returned: the
\* request is filtered out and the call ends.
SendMessageReturns ==
  /\ \E c \in BagToSet(running) :
       /\ c.at = "sendMessage"
       /\ c.outcome # "none"
       /\ pendingCommands' = RemoveRequest(pendingCommands, c.id)
       /\ running' = running (-) SetToBag({c})
  /\ UNCHANGED <<renderedCommands, issued, orchExecuted, execCount, calls, isLoading,
                 renderedLoading, userTurn>>
  /\ UNCHANGED outsideChat

\* The tests of a message none of whose patterns match.
PlainMessage(text) ==
  [text |-> text,
   wrapConversation |-> FALSE,
   explicitDockerQuestion |-> FALSE,
   logsAsked |-> FALSE,
   needsDockerPs |-> FALSE,
   needsDockerPsAll |-> FALSE,
   isDockerQuestion |-> FALSE,
   hasDockerContext |-> FALSE,
   isExplicitRequest |-> FALSE,
   isJustChecking |-> FALSE,
   isShortConfirmation |-> FALSE,
   isDataStatusQuestion |-> FALSE]

\* No turn is being handled.
TurnIdle ==
  /\ turnPhase = "closed"
  /\ functionCalls = <<>>
  /\ functionCallSet = {}
  /\ found = <<>>
  /\ pendingLogRequest = FALSE
  /\ recentCapture = FALSE
  /\ lastUserMessage = PlainMessage("")
  /\ modelOutputs = [shapes |-> {}, answers |-> {}]
  /\ prompts = <<>>
  /\ cancelled = FALSE
  /\ turnIndex = 1
  /\ turnPc = "next"
  /\ turnResponse = NoResponse
  /\ inFlight = 0
  /\ toolResults = <<>>
  /\ commandRequests = <<>>
  /\ notifiedCommandRequests = {}
  /\ idsGenerated = 0
  /\ turnExecuted = <<>>

\* Nothing was read from a cache yet.
NoRead == [of |-> "none", returned |-> <<>>, passedOver |-> <<>>]

\* No captureWindowWithOCR call has returned yet.
NoCapture ==
  [key |-> 0, outcome |-> "none", analyzeWindowCapture |-> "none",
   capture |-> "none", analysis |-> "none"]

\* No analyzeWindowCapture call has missed the cache yet.
NoCallBegun == [key |-> 0, before |-> <<>>, alone |-> FALSE]

\* The caches are empty and no analysis is running.
CacheIdle ==
  /\ now = 0
  /\ ticks = 0
  /\ windowSelectionCache = <<>>
  /\ cache = <<>>
  /\ analyzing = EmptyBag
  /\ analysesStarted = 0
  /\ lastRead = NoRead
  /\ lastCapture = NoCapture
  /\ callBegun = NoCallBegun

NoWindowArgs == [process_name |-> <<>>, window_title |-> <<>>]

NoWindowTarget ==
  [found |-> FALSE, title |-> <<>>, displayName |-> <<>>, processName |-> <<>>,
   pass |-> "none"]

\* No capture_window_with_ocr call is being handled.
WindowsIdle ==
  /\ winPc = "idle"
  /\ winArgs = NoWindowArgs
  /\ winCalls = 0
  /\ winListed = [invoked |-> FALSE, threw |-> FALSE, windows |-> <<>>]
  /\ winCacheAtListing = <<>>
  /\ winResolved = [ran |-> FALSE, processName |-> <<>>, requested |-> <<>>,
                    target |-> NoWindowTarget]
  /\ winLive = <<>>
  /\ winCaptures = <<>>
  /\ winResponse = NoResponse

NoPolicyCall == [command |-> <<>>, args |-> <<>>]

Init ==
  /\ polCall = NoPolicyCall
  /\ polResponse = NoResponse
  /\ polPrevCall = <<>>
  /\ polPrevResponse = <<>>
  /\ ChatInit
  /\ TurnIdle
  /\ CacheIdle
  /\ WindowsIdle

Next ==
  \/ UserSendsMessage
  \/ UserTurnEnds
  \/ OrchestratorHandlesCall
  \/ Render
  \/ \E requestId \in RequestIds : ApproveCommandRequest(requestId)
  \/ ExecuteCommandSettles
  \/ \E requestId \in RequestIds : DenyCommandRequest(requestId)
  \/ SendMessageSettles
  \/ SendMessageReturns

Spec == Init /\ [][Next]_vars


-----------------------------------------------------------------------------
(* Specification of the classifier: a call is drawn, handled, and then     *)
(* issued once more in another letter-casing.                              *)

PolicyInit ==
  /\ polCall \in PolicyInputs
  /\ polResponse = NoResponse
  /\ polPrevCall = <<>>
  /\ polPrevResponse = <<>>
  /\ ChatInit
  /\ TurnIdle
  /\ CacheIdle
  /\ WindowsIdle

PolicyHandleCall ==
  /\ polResponse.kind = "none"
  /\ \E host \in HostOutcomes :
       polResponse' = handleFunctionCall(polCall.command, polCall.args, host, 1)
  /\ UNCHANGED <<polCall, polPrevCall, polPrevResponse>>
  /\ UNCHANGED outsidePolicy

PolicyNextCall ==
  /\ polResponse.kind # "none"
  /\ polPrevCall = <<>>
  /\ \E c \in Recasings(polCall) : polCall' = c
  /\ polPrevCall' = <<polCall>>
  /\ polPrevResponse' = <<polResponse>>
  /\ polResponse' = NoResponse
  /\ UNCHANGED outsidePolicy

PolicyNext == PolicyHandleCall \/ PolicyNextCall

SpecPolicy == PolicyInit /\ [][PolicyNext]_vars

-----------------------------------------------------------------------------
(* Properties of the classifier                                            *)

Handled == polResponse.kind # "none"

ForbiddenCasings == UNION {Casings(n) : n \in ForbiddenNames}

\* C2: a command whose name is, in any letter-casing, one of the forbidden
\* names is classified blocked / forbidden whatever its arguments are.
C2_ForbiddenIsBlocked ==
  (Handled /\ polCall.command \in ForbiddenCasings)
    => /\ polResponse.policy.level = "blocked"
       /\ polResponse.policy.category = "forbidden"

C2_Witness ==
  /\ Handled
  /\ polCall.command = <<"S", "h", "u", "T", "d", "o", "W", "n">>
  /\ polCall.args = <<S_rf, S_x>>
  /\ polResponse.policy.level = "blocked"

NoRuleMatches(call) ==
  \A i \in DOMAIN allRules :
    ~matchesRule(allRules[i], ToLowerCase(call.command), LowerArgs(call.args))

AutoRuleMatches(call) ==
  \E i \in DOMAIN allRules :
    /\ allRules[i].level = "auto"
    /\ matchesRule(allRules[i], ToLowerCase(call.command), LowerArgs(call.args))

\* C3: a call that matches no rule gets approval_required / critical and is
\* answered needsApproval without executeCommand being invoked; level auto,
\* and an execution by the tool-call handler, occur only when a rule of
\* level auto matches the call.
C3_DefaultIsApprovalRequired ==
  Handled =>
    /\ NoRuleMatches(polCall) =>
         /\ polResponse.policy.level = "approval_required"
         /\ polResponse.policy.category = "critical"
         /\ polResponse.kind = "needsApproval"
    /\ polResponse.policy.level = "auto" => AutoRuleMatches(polCall)
    /\ invokedExecuteCommand(polResponse) => AutoRuleMatches(polCall)

C3_Witness ==
  /\ Handled
  /\ polCall = Call(S_rmdir, <<S_rm, S_x>>)
  /\ NoRuleMatches(polCall)
  /\ polResponse.kind = "needsApproval"

Normalized(call) ==
  [command |-> ToLowerCase(call.command), args |-> LowerArgs(call.args)]

\* C8: two calls that are equal after lower-casing the command and the
\* arguments get the same decision (level, category, reason and suggested
\* confirmation), whatever was evaluated before.
C8_SameNormalizedSameDecision ==
  (Handled /\ polPrevCall # <<>> /\ Normalized(polPrevCall[1]) = Normalized(polCall))
    => polResponse.policy = polPrevResponse[1].policy

C8_Witness ==
  /\ Handled
  /\ polPrevCall = <<Call(S_docker, <<S_ps, S_dash_a>>)>>
  /\ polCall = Call(ToUpperCase(S_docker), <<ToUpperCase(S_ps), ToUpperCase(S_dash_a)>>)
  /\ polResponse.policy.level = "auto"

Decides(command, args, level, category) ==
  (Handled /\ polCall = Call(command, args))
    => /\ polResponse.policy.level = level
       /\ polResponse.policy.category = category

\* C9: the documented decisions: docker ps, docker ps -a, docker logs <c>,
\* docker stats, git status and npm ls are auto / context; docker start <c>,
\* docker stop <c>, git reset --hard, git clean -fd and npm install are
\* approval_required / critical; docker rm <c> and docker compose down are
\* blocked / forbidden; flibbertigibbet without arguments is
\* approval_required / critical.
C9_DocumentedDecisions ==
  /\ Decides(S_docker, <<S_ps>>, "auto", "context")
  /\ Decides(S_docker, <<S_ps, S_dash_a>>, "auto", "context")
  /\ Decides(S_docker, <<S_logs, S_x>>, "auto", "context")
  /\ Decides(S_docker, <<S_stats>>, "auto", "context")
  /\ Decides(S_git, <<S_status>>, "auto", "context")
  /\ Decides(S_npm, <<S_ls>>, "auto", "context")
  /\ Decides(S_docker, <<S_start, S_x>>, "approval_required", "critical")
  /\ Decides(S_docker, <<S_stop, S_x>>, "approval_required", "critical")
  /\ Decides(S_git, <<S_reset, S_hard>>, "approval_required", "critical")
  /\ Decides(S_git, <<S_clean, S_fd>>, "approval_required", "critical")
  /\ Decides(S_npm, <<S_install>>, "approval_required", "critical")
  /\ Decides(S_docker, <<S_rm, S_x>>, "blocked", "forbidden")
  /\ Decides(S_docker, <<S_compose, S_down>>, "blocked", "forbidden")
  /\ Decides(S_flibbertigibbet, <<>>, "approval_required", "critical")

C9_Witness ==
  /\ Handled
  /\ polCall = Call(S_git, <<S_reset, S_hard>>)
  /\ polResponse.kind = "needsApproval"
  /\ polResponse.policy.reason.text = "Potentially discards commits or changes."

\* The commands command-policy.md gives as Context examples.
ContextExamples ==
  {Call(S_docker, <<S_ps>>), Call(S_docker, <<S_logs>>), Call(S_git, <<S_status>>),
   Call(S_kubectl, <<S_get>>), Call(S_ls, <<>>), Call(S_systeminfo, <<>>)}

\* C10: every command the policy document lists as a Context example is
\* classified level auto and so is run without an approval request.
C10_ContextExamplesAreAuto ==
  (Handled /\ polCall \in ContextExamples)
    => /\ polResponse.policy.level = "auto"
       /\ invokedExecuteCommand(polResponse)

-----------------------------------------------------------------------------
(* Properties of the approval workflow                                     *)

Level(call) == evaluateCommandPolicy(call.command, call.args).level

\* C1: a command the policy classifies as blocked is never run: the
\* tool-call handler does not invoke executeCommand for it, no approve call
\* invokes executeCommand for its request, and its request never has status
\* executing.
C1_BlockedNeverRuns ==
  /\ \A call \in orchExecuted : Level(call) # "blocked"
  /\ \A id \in DOMAIN issued :
       issued[id].policy.level = "blocked"
         => /\ execCount[id] = 0
            /\ StatusOf(pendingCommands, id) # "executing"

BecomesExecuting(id) ==
  /\ StatusOf(pendingCommands, id) # "executing"
  /\ StatusOf(pendingCommands', id) = "executing"

\* C4: the tool-call handler never invokes executeCommand for a command
\* classified approval_required, and a step in which a request becomes
\* executing, or in which executeCommand is invoked for a request, is an
\* approveCommandRequest call for that request's id.
C4_ExecutingOnlyByApprove ==
  /\ [](\A call \in orchExecuted : Level(call) # "approval_required")
  /\ [][\A id \in RequestIds :
          (BecomesExecuting(id) \/ execCount'[id] > execCount[id])
            => ApproveCommandRequest(id)]_vars

C4_Witness ==
  \E id \in DOMAIN issued :
    /\ issued[id].policy.level = "approval_required"
    /\ StatusOf(pendingCommands, id) = "executing"
    /\ execCount[id] = 1
    /\ orchExecuted # {}

\* C5: whatever approve calls are made for an id, executeCommand is invoked
\* at most once for that request.
C5_ApproveRunsAtMostOnce ==
  \A id \in RequestIds : execCount[id] <= 1

\* C6: a request with status denied keeps that status until it is removed,
\* and executeCommand is not invoked for it.
C6_DeniedIsTerminal ==
  [][\A id \in RequestIds :
       StatusOf(pendingCommands, id) = "denied"
         => /\ StatusOf(pendingCommands', id) \in {"denied", "absent"}
            /\ execCount'[id] = execCount[id]]_vars

\* The status changes of the approval state machine; a request enters as
\* pending or blocked and leaves by being removed.
AllowedChange(from, to) ==
  \/ from = "absent" /\ to \in {"pending", "blocked"}
  \/ from = "pending" /\ to \in {"executing", "denied"}
  \/ from = "executing" /\ to = "executed"
  \/ to = "absent"

\* C7: every status change of a request is one of the approval state
\* machine: created pending or blocked, pending -> executing,
\* executing -> executed, pending -> denied.
C7_OnlyStateMachineChanges ==
  [][\A id \in RequestIds :
       StatusOf(pendingCommands, id) # StatusOf(pendingCommands', id)
         => AllowedChange(StatusOf(pendingCommands, id),
                          StatusOf(pendingCommands', id))]_vars

-----------------------------------------------------------------------------
(* One turn of sendMessageWithVision (chat branch): the function calls of  *)
(* the streamed response are collected, the turn's diagnostic commands are *)
(* scheduled, and the calls are handled one after the other.               *)

S_execute_command == <<"e", "x", "e", "c", "u", "t", "e", "_", "c", "o", "m", "m", "a", "n", "d">>
S_capture_window_with_ocr == <<"c", "a", "p", "t", "u", "r", "e", "_", "w", "i", "n", "d", "o", "w", "_", "w", "i", "t", "h", "_", "o", "c", "r">>
S_command == <<"c", "o", "m", "m", "a", "n", "d">>
S_args == <<"a", "r", "g", "s">>
S_process_name == <<"p", "r", "o", "c", "e", "s", "s", "_", "n", "a", "m", "e">>
S_tail == <<"-", "-", "t", "a", "i", "l">>
S_200 == <<"2", "0", "0">>
S_web == <<"w", "e", "b">>

\* JSON values: a string, an array of strings, an object (its properties in
\* insertion order, each a <<key, value>> pair), or undefined.
Undefined == [t |-> "undefined", v |-> <<>>]

Str(s) == [t |-> "string", v |-> s]

Arr(a) == [t |-> "array", v |-> a]

Obj(pairs) == [t |-> "object", v |-> pairs]

\* A number, by the digits String(n) gives.
Num(digits) == [t |-> "number", v |-> digits]

Quote(s) == <<"\"">> \o s \o <<"\"">>

RECURSIVE JoinComma(_)
JoinComma(parts) ==
  IF Len(parts) = 0 THEN <<>>
  ELSE IF Len(parts) = 1 THEN parts[1]
  ELSE parts[1] \o <<",">> \o JoinComma(Tail(parts))

\* JSON.stringify, to the characters of the text it returns.
StringifyValue(val) ==
  IF val.t = "string" THEN Quote(val.v)
  ELSE <<"[">> \o JoinComma([i \in DOMAIN val.v |-> Quote(val.v[i])]) \o <<"]">>

StringifyObject(pairs) ==
  <<"{">>
    \o JoinComma([i \in DOMAIN pairs |->
                    Quote(pairs[i][1]) \o <<":">> \o StringifyValue(pairs[i][2])])
    \o <<"}">>

\* obj[key]
Get(pairs, key) ==
  IF \E i \in DOMAIN pairs : pairs[i][1] = key
    THEN pairs[CHOOSE i \in DOMAIN pairs : pairs[i][1] = key][2]
    ELSE Undefined

\* args.command / args.args as handleFunctionCall reads them.
CommandOf(pairs) ==
  IF Get(pairs, S_command).t = "string" THEN Get(pairs, S_command).v ELSE <<>>

ArgsOf(pairs) ==
  IF Get(pairs, S_args).t = "array" THEN Get(pairs, S_args).v ELSE <<>>

ExecuteCommandCall(command, args) ==
  [name |-> S_execute_command,
   args |-> <<<<S_command, Str(command)>>, <<S_args, Arr(args)>>>>]

S_unknown == <<"u", "n", "k", "n", "o", "w", "n">>
S_window_title == <<"w", "i", "n", "d", "o", "w", "_", "t", "i", "t", "l", "e">>
S_WindowsTerminal == <<"W", "i", "n", "d", "o", "w", "s", "T", "e", "r", "m", "i", "n", "a", "l">>
S_Windows_PowerShell == <<"W", "i", "n", "d", "o", "w", "s", " ", "P", "o", "w", "e", "r", "S", "h", "e", "l", "l">>
S_windowsterminal == <<"w", "i", "n", "d", "o", "w", "s", "t", "e", "r", "m", "i", "n", "a", "l">>
S_terminal == <<"t", "e", "r", "m", "i", "n", "a", "l">>
S_cmd == <<"c", "m", "d">>
S_powershell == <<"p", "o", "w", "e", "r", "s", "h", "e", "l", "l">>

\* The name addFunctionCall gives a call: call.name when it is a string,
\* String(call.name) when it is a number, "unknown" otherwise.
CallName(call) ==
  IF call.name.t \in {"string", "number"} THEN call.name.v ELSE S_unknown

\* `${name}::${JSON.stringify(args)}`
CallKey(name, args) == name \o <<":", ":">> \o StringifyObject(args)

\* addFunctionCall storing every call it is handed (no functionCallSet test).
addFunctionCall_NoSet(st, call) ==
  LET name == CallName(call)
      args == IF call.args.t = "object" THEN call.args.v
              ELSE IF call.arguments.t = "object" THEN call.arguments.v
              ELSE <<>>
  IN  [functionCallSet |-> st.functionCallSet \cup {CallKey(name, args)},
       functionCalls |-> Append(st.functionCalls, [name |-> name, args |-> args])]

\* addFunctionCall on the pair (functionCallSet, functionCalls).
addFunctionCall(st, call) ==
  LET name == CallName(call)
      args == IF call.args.t = "object" THEN call.args.v
              ELSE IF call.arguments.t = "object" THEN call.arguments.v
              ELSE <<>>
      key == CallKey(name, args)
  IN  IF key \in st.functionCallSet THEN st
      ELSE [functionCallSet |-> st.functionCallSet \cup {key},
            functionCalls |-> Append(st.functionCalls, [name |-> name, args |-> args])]

\* The test that ends scanForFunctionCalls: typeof source.name === "string"
\* and args or arguments is an object.
LooksLikeFunctionCall(source) ==
  /\ source.name.t = "string"
  /\ source.args.t = "object" \/ source.arguments.t = "object"

RECURSIVE scanForFunctionCalls(_, _)
\* scanForFunctionCalls over the objects a chunk or the full response holds,
\* in the order the traversal meets them.
scanForFunctionCalls(st, sources) ==
  IF Len(sources) = 0 THEN st
  ELSE scanForFunctionCalls(
         IF LooksLikeFunctionCall(Head(sources))
           THEN addFunctionCall(st, Head(sources))
           ELSE st,
         Tail(sources))

\* A functionCall object of a response, its arguments under args.
Shape(name, args) == [name |-> name, args |-> Obj(args), arguments |-> Undefined]

DockerPsShape ==
  Shape(Str(S_execute_command), <<<<S_command, Str(S_docker)>>, <<S_args, Arr(<<S_ps>>)>>>>)

DockerCaptureShape ==
  Shape(Str(S_capture_window_with_ocr), <<<<S_process_name, Str(S_docker)>>>>)

\* The objects with a string name a response may hold.  The same docker ps
\* call appears with its arguments under args, under arguments, and with
\* the properties of args in the other order.
CallShapes ==
  {[name |-> Str(S_execute_command),
    args |-> Obj(<<<<S_command, Str(S_docker)>>, <<S_args, Arr(<<S_ps>>)>>>>),
    arguments |-> Undefined],
   [name |-> Str(S_execute_command),
    args |-> Undefined,
    arguments |-> Obj(<<<<S_command, Str(S_docker)>>, <<S_args, Arr(<<S_ps>>)>>>>)],
   [name |-> Str(S_execute_command),
    args |-> Obj(<<<<S_args, Arr(<<S_ps>>)>>, <<S_command, Str(S_docker)>>>>),
    arguments |-> Undefined],
   [name |-> Str(S_execute_command),
    args |-> Obj(<<<<S_command, Str(S_flibbertigibbet)>>, <<S_args, Arr(<<>>)>>>>),
    arguments |-> Undefined],
   [name |-> Str(S_execute_command),
    args |-> Obj(<<<<S_command, Str(ToUpperCase(S_rm))>>, <<S_args, Arr(<<S_rf, S_x>>)>>>>),
    arguments |-> Undefined],
   [name |-> Str(S_capture_window_with_ocr),
    args |-> Obj(<<<<S_process_name, Str(S_docker)>>>>),
    arguments |-> Undefined],
   [name |-> Str(S_execute_command), args |-> Undefined, arguments |-> Undefined]}

\* Responses with malformed function calls: an empty name, a number as
\* name, no name; next to a command that runs, a command that needs approval
\* and a capture.
LoopShapes ==
  {DockerPsShape,
   Shape(Str(S_execute_command),
         <<<<S_command, Str(ToUpperCase(S_rm))>>, <<S_args, Arr(<<S_rf, S_x>>)>>>>),
   DockerCaptureShape,
   Shape(Str(<<>>), <<>>),
   Shape(Num(<<"7">>), <<>>),
   Shape(Undefined, <<<<S_command, Str(S_docker)>>, <<S_args, Arr(<<S_ps>>)>>>>)}

\* Responses asking for the docker commands the scheduling adds itself, for
\* a capture of Docker and for a capture of one titled terminal window.
AugmentShapes ==
  {DockerPsShape,
   Shape(Str(S_execute_command),
         <<<<S_command, Str(S_docker)>>, <<S_args, Arr(<<S_ps, S_dash_a>>)>>>>),
   Shape(Str(S_execute_command),
         <<<<S_command, Str(S_docker)>>,
           <<S_args, Arr(<<S_logs, S_tail, S_200, S_web>>)>>>>),
   DockerCaptureShape,
   Shape(Str(S_capture_window_with_ocr),
         <<<<S_process_name, Str(S_WindowsTerminal)>>,
           <<S_window_title, Str(S_Windows_PowerShell)>>>>)}

MaxFound == 2

\* The chunk a found shape came in; 0 is the full response.
NextChunk == IF Len(found) = 0 THEN 1 ELSE found[Len(found)].chunk + 1

Collected(sources) ==
  scanForFunctionCalls(
    [functionCallSet |-> functionCallSet, functionCalls |-> functionCalls], sources)

FoundIn(sources, chunk) ==
  LET shapes == SelectSeq(sources, LooksLikeFunctionCall)
  IN  [i \in DOMAIN shapes |-> [shape |-> shapes[i], chunk |-> chunk]]

\* What the tests of the last user message give for a few messages
\* (isConversationWrapMessage, isExplicitDockerQuestion, the logs / plural /
\* action-verb patterns, and the patterns of the capture checks);
\* hasDockerContext is that of a conversation holding this message only.
UserMessages ==
  { [text |-> "hello there",
    wrapConversation |-> FALSE,
    explicitDockerQuestion |-> FALSE,
    logsAsked |-> FALSE,
    needsDockerPs |-> FALSE,
    needsDockerPsAll |-> FALSE,
    isDockerQuestion |-> FALSE,
    hasDockerContext |-> FALSE,
    isExplicitRequest |-> FALSE,
    isJustChecking |-> FALSE,
    isShortConfirmation |-> FALSE,
    isDataStatusQuestion |-> FALSE],
   [text |-> "what containers are running",
    wrapConversation |-> FALSE,
    explicitDockerQuestion |-> FALSE,
    logsAsked |-> FALSE,
    needsDockerPs |-> TRUE,
    needsDockerPsAll |-> FALSE,
    isDockerQuestion |-> FALSE,
    hasDockerContext |-> FALSE,
    isExplicitRequest |-> FALSE,
    isJustChecking |-> FALSE,
    isShortConfirmation |-> FALSE,
    isDataStatusQuestion |-> TRUE],
   [text |-> "show docker logs for web",
    wrapConversation |-> FALSE,
    explicitDockerQuestion |-> TRUE,
    logsAsked |-> TRUE,
    needsDockerPs |-> TRUE,
    needsDockerPsAll |-> TRUE,
    isDockerQuestion |-> TRUE,
    hasDockerContext |-> TRUE,
    isExplicitRequest |-> TRUE,
    isJustChecking |-> FALSE,
    isShortConfirmation |-> FALSE,
    isDataStatusQuestion |-> TRUE],
   [text |-> "look at docker desktop",
    wrapConversation |-> FALSE,
    explicitDockerQuestion |-> FALSE,
    logsAsked |-> FALSE,
    needsDockerPs |-> FALSE,
    needsDockerPsAll |-> FALSE,
    isDockerQuestion |-> FALSE,
    hasDockerContext |-> TRUE,
    isExplicitRequest |-> TRUE,
    isJustChecking |-> FALSE,
    isShortConfirmation |-> FALSE,
    isDataStatusQuestion |-> FALSE],
   [text |-> "thanks, that's all",
    wrapConversation |-> TRUE,
    explicitDockerQuestion |-> FALSE,
    logsAsked |-> FALSE,
    needsDockerPs |-> FALSE,
    needsDockerPsAll |-> FALSE,
    isDockerQuestion |-> FALSE,
    hasDockerContext |-> FALSE,
    isExplicitRequest |-> FALSE,
    isJustChecking |-> FALSE,
    isShortConfirmation |-> FALSE,
    isDataStatusQuestion |-> FALSE]}

\* Messages for the scheduling and the capture checks: a question whether
\* the assistant sees the Docker app, a request naming a container, an
\* acknowledgement, and the answer to a window selection prompt.
AugmentMessages ==
  {m \in UserMessages : m.text # "hello there"}
    \cup {[PlainMessage("can you see my docker app?")
              EXCEPT !.hasDockerContext = TRUE, !.isJustChecking = TRUE],
          [PlainMessage("restart web")
              EXCEPT !.needsDockerPs = TRUE, !.needsDockerPsAll = TRUE,
                     !.isDockerQuestion = TRUE],
          [PlainMessage("all good, just wanted to check")
              EXCEPT !.wrapConversation = TRUE, !.isJustChecking = TRUE],
          PlainMessage("the second one")}

LoopMessages == {PlainMessage("hello there")}

\* What the reasoning service answers to a function response or a prompt:
\* no text, fewer than 50 characters, or more.
AnswerLengths == {"none", "short", "long"}

DockerPs == ExecuteCommandCall(S_docker, <<S_ps>>)

DockerPsAll == ExecuteCommandCall(S_docker, <<S_ps, S_dash_a>>)

\* containerName is the name the logs pattern captured: web.
DockerLogs == ExecuteCommandCall(S_docker, <<S_logs, S_tail, S_200, S_web>>)

ArrIncludes(a, x) == \E i \in DOMAIN a : a[i] = x

RECURSIVE Includes(_, _)
\* s.includes(sub)
Includes(s, sub) ==
  IF Len(sub) > Len(s) THEN FALSE
  ELSE IF SubSeq(s, 1, Len(sub)) = sub THEN TRUE
  ELSE Includes(Tail(s), sub)

IsExecuteCommand(fc) == fc.name = S_execute_command

IsCapture(fc) == fc.name = S_capture_window_with_ocr

\* fc.args?.command === "docker" and the args array holds ps, with or
\* without -a.
IsDockerPs(fc, withAll) ==
  /\ IsExecuteCommand(fc)
  /\ Get(fc.args, S_command) = Str(S_docker)
  /\ Get(fc.args, S_args).t = "array"
  /\ ArrIncludes(Get(fc.args, S_args).v, S_ps)
  /\ ArrIncludes(Get(fc.args, S_args).v, S_dash_a) = withAll

HasLogsArg(fc) ==
  /\ IsExecuteCommand(fc)
  /\ Get(fc.args, S_args).t = "array"
  /\ ArrIncludes(Get(fc.args, S_args).v, S_logs)

IsDockerCapture(fc) ==
  /\ IsCapture(fc)
  /\ Get(fc.args, S_process_name).t = "string"
  /\ Includes(ToLowerCase(Get(fc.args, S_process_name).v), S_docker)

HasPsCommand_Unchecked(cs) == FALSE

\* functionCalls.some(fc => ... docker ... includes("ps") && !includes("-a"))
HasPsCommand(cs) == \E i \in DOMAIN cs : IsDockerPs(cs[i], FALSE)

\* The scheduling of the turn's docker commands around the collected calls:
\* what functionCalls and pendingLogRequest are when the loop starts.
ScheduleCalls(collected, m) ==
  LET logsWanted == ~m.wrapConversation /\ m.logsAsked
      \* if (functionCalls.length === 0) { ... }
      pushLogs == Len(collected) = 0 /\ logsWanted
      pushPs == /\ Len(collected) = 0
                /\ ~logsWanted
                /\ ~m.wrapConversation
                /\ (m.needsDockerPs \/ (m.explicitDockerQuestion /\ m.hasDockerContext))
      c1 == IF pushLogs THEN <<DockerPsAll, DockerLogs>>
            ELSE IF pushPs THEN <<DockerPs>>
            ELSE collected
      \* if (functionCalls.length > 0) { ... }
      hasDockerCapture == (\E i \in DOMAIN c1 : IsDockerCapture(c1[i]))
      hasLogsCommand == (\E i \in DOMAIN c1 : HasLogsArg(c1[i]))
      unshiftLogs == logsWanted /\ ~hasLogsCommand
      hasPsAll == (\E i \in DOMAIN c1 : IsDockerPs(c1[i], TRUE))
      unshiftPsAll1 == unshiftLogs /\ ~hasPsAll /\ ~pushLogs
      c2 == (IF unshiftLogs THEN <<DockerLogs>> ELSE <<>>)
              \o (IF unshiftPsAll1 THEN <<DockerPsAll>> ELSE <<>>) \o c1
      dockerPsAllScheduled == pushLogs \/ unshiftPsAll1
      hasPsCommand == HasPsCommand(c2)
      hasPsAllCommand == (\E i \in DOMAIN c2 : IsDockerPs(c2[i], TRUE))
      unshiftPs == /\ ~m.wrapConversation /\ m.needsDockerPs /\ ~hasPsCommand
                   /\ ~pushPs
      c3 == (IF unshiftPs THEN <<DockerPs>> ELSE <<>>) \o c2
      unshiftPsAll2 == /\ ~m.wrapConversation /\ m.needsDockerPsAll
                       /\ ~hasPsAllCommand /\ ~dockerPsAllScheduled
      c4 == (IF unshiftPsAll2 THEN <<DockerPsAll>> ELSE <<>>) \o c3
      hasExecuteCommand == \/ (\E i \in DOMAIN c1 : IsExecuteCommand(c1[i]))
                           \/ unshiftLogs \/ unshiftPs \/ unshiftPsAll2
      unshiftPsForCapture == /\ (m.isDockerQuestion \/ m.hasDockerContext)
                             /\ hasDockerCapture /\ ~hasExecuteCommand
      c5 == (IF unshiftPsForCapture THEN <<DockerPs>> ELSE <<>>) \o c4
  IN  IF Len(c1) = 0
        THEN [calls |-> <<>>, pendingLogRequest |-> FALSE]
        ELSE [calls |-> c5, pendingLogRequest |-> pushLogs \/ unshiftLogs]

\* Boolean(funcCall.args?.window_title)
HasWindowTitle(fc) ==
  /\ Get(fc.args, S_window_title).t = "string"
  /\ Get(fc.args, S_window_title).v # <<>>

\* (processName || "").toLowerCase()
ProcessLower(fc) ==
  IF Get(fc.args, S_process_name).t = "string"
    THEN ToLowerCase(Get(fc.args, S_process_name).v)
    ELSE <<>>

IsTerminalProcess(fc) ==
  \/ Includes(ProcessLower(fc), S_windowsterminal)
  \/ Includes(ProcessLower(fc), S_terminal)
  \/ Includes(ProcessLower(fc), S_cmd)
  \/ Includes(ProcessLower(fc), S_powershell)

\* The reason the capture call fc is answered without capturing, or "no".
\* cs is the turn's call list, recent is hasRecentCapture(...).hasCapture.
CaptureSkip(fc, cs, m, recent) ==
  IF /\ recent /\ ~HasWindowTitle(fc) /\ ~m.isExplicitRequest
     /\ (m.isJustChecking \/ m.isShortConfirmation \/ m.wrapConversation)
    THEN "recent_capture"
  ELSE IF /\ ~recent /\ (\E i \in DOMAIN cs : IsExecuteCommand(cs[i]))
          /\ ~m.isExplicitRequest /\ ~HasWindowTitle(fc)
          /\ m.isDataStatusQuestion /\ ~m.isJustChecking
    THEN "prefer_command_output"
  ELSE IF IsTerminalProcess(fc) /\ ~m.isExplicitRequest
    THEN "terminal_capture_unnecessary"
  ELSE "no"

NoPolicy ==
  [level |-> "none", reason |-> [text |-> "", command |-> <<>>],
   category |-> "none", suggestedConfirmation |-> "undefined"]

\* A function response that is not about a command.
ToolResponse(kind, success, error) ==
  [kind |-> kind, success |-> success, command |-> <<>>, args |-> <<>>,
   policy |-> NoPolicy, request_id |-> 0,
   error |-> [text |-> error, command |-> <<>>]]

\* The arguments of the docker logs call once the container is resolved.
RewriteLogsArgs(argsArray, name) ==
  LET tails == {i \in DOMAIN argsArray : ToLowerCase(argsArray[i]) = S_tail}
      tailIndex == IF tails = {} THEN 0
                   ELSE CHOOSE i \in tails : \A j \in tails : i <= j
  IN  <<S_logs>>
        \o (IF tailIndex > 0 /\ Len(argsArray) > tailIndex
              THEN <<S_tail, argsArray[tailIndex + 1]>>
              ELSE <<>>)
        \o <<name>>

\* Whether an earlier docker ps of the turn returned output, from which
\* recordDockerContainers may have listed containers.
ContainersMayBeKnown ==
  \E i \in DOMAIN toolResults :
    /\ toolResults[i].response.kind = "output"
    /\ toolResults[i].response.command = S_docker
    /\ ArrIncludes(toolResults[i].response.args, S_ps)
    /\ toolResults[i].response.error.text # "error.message"

\* for (const funcCall of functionCalls) with an await in the body: the
\* next iteration starts when the previous one has ended.
LoopMayStart_NoAwait(pc) == TRUE

LoopMayStart(pc) == pc = "next"

PolicyIdle ==
  /\ polCall = NoPolicyCall
  /\ polResponse = NoResponse
  /\ polPrevCall = <<>>
  /\ polPrevResponse = <<>>

\* sendMessageWithVision is called with a conversation ending in one of
\* messages; the reasoning service answers with shapes and answers.
TurnStart(messages, shapes, answers) ==
  /\ PolicyIdle
  /\ ChatInit
  /\ turnPhase = "start"
  /\ lastUserMessage \in messages
  /\ modelOutputs = [shapes |-> shapes, answers |-> answers]
  /\ prompts = <<>>
  /\ cancelled = FALSE
  /\ functionCalls = <<>>
  /\ functionCallSet = {}
  /\ found = <<>>
  /\ pendingLogRequest = FALSE
  /\ recentCapture = FALSE
  /\ turnIndex = 1
  /\ turnPc = "next"
  /\ turnResponse = NoResponse
  /\ inFlight = 0
  /\ toolResults = <<>>
  /\ commandRequests = <<>>
  /\ notifiedCommandRequests = {}
  /\ idsGenerated = 0
  /\ turnExecuted = <<>>
  /\ CacheIdle
  /\ WindowsIdle

\* The messages of the turns with every call shape.
TurnMessages == {m \in UserMessages : m.text # "show docker logs for web"}

TurnInit == TurnStart(TurnMessages, CallShapes, {"long"})

loopVars ==
  <<pendingLogRequest, recentCapture, turnIndex, turnPc, turnResponse, inFlight,
    toolResults, commandRequests, notifiedCommandRequests, idsGenerated,
    turnExecuted>>

\* What the turn is given and does not change.
turnInputs == <<lastUserMessage, modelOutputs>>

isConversationWrapMessage_Never(m) == FALSE

\* isConversationWrapMessage(lastUserMessageContent), from the tests of m.
isConversationWrapMessage(m) == m.wrapConversation

\* The wrap-up test on the last user message: a fixed text and no request,
\* or the message goes to the reasoning service.
TurnBegin ==
  /\ turnPhase = "start"
  /\ IF isConversationWrapMessage(lastUserMessage)
       THEN /\ turnPhase' = IF cancelled THEN "errored" ELSE "closed"
            /\ UNCHANGED prompts
       ELSE /\ turnPhase' = "stream"
            /\ prompts' = Append(prompts, [kind |-> "message", index |-> 0])
  /\ UNCHANGED <<functionCalls, functionCallSet, found, loopVars, turnInputs, cancelled>>
  /\ UNCHANGED outsideTurn

\* for await (const chunk of result.stream) scanForFunctionCalls(chunk, "Chunk")
TurnScanChunk ==
  /\ turnPhase = "stream"
  /\ \E sources \in SeqsUpTo(modelOutputs.shapes, MaxFound - Len(found)) :
       /\ Len(sources) > 0
       /\ functionCalls' = Collected(sources).functionCalls
       /\ functionCallSet' = Collected(sources).functionCallSet
       /\ found' = found \o FoundIn(sources, NextChunk)
  /\ UNCHANGED <<turnPhase, loopVars, turnInputs, prompts, cancelled>>
  /\ UNCHANGED outsideTurn

\* scanForFunctionCalls(await result.response, "FullResponse")
TurnScanFullResponse ==
  /\ turnPhase = "stream"
  /\ \E sources \in SeqsUpTo(modelOutputs.shapes, MaxFound - Len(found)) :
       /\ functionCalls' = Collected(sources).functionCalls
       /\ functionCallSet' = Collected(sources).functionCallSet
       /\ found' = found \o FoundIn(sources, 0)
  /\ turnPhase' = "schedule"
  /\ UNCHANGED <<loopVars, turnInputs, prompts, cancelled>>
  /\ UNCHANGED outsideTurn

\* From the tests of the last user message to the start of the loop.
TurnSchedule ==
  /\ turnPhase = "schedule"
  /\ \E recent \in BOOLEAN :
       LET scheduled == ScheduleCalls(functionCalls, lastUserMessage)
       IN  /\ functionCalls' = scheduled.calls
           /\ pendingLogRequest' = scheduled.pendingLogRequest
           /\ recentCapture' = (recent /\ \E i \in DOMAIN scheduled.calls :
                                             IsCapture(scheduled.calls[i]))
           /\ turnPhase' = IF Len(scheduled.calls) > 0 THEN "loop"
                           ELSE IF cancelled THEN "errored" ELSE "closed"
  /\ UNCHANGED <<functionCallSet, found, turnIndex, turnPc, turnResponse, inFlight,
                 toolResults, commandRequests, notifiedCommandRequests,
                 idsGenerated, turnExecuted, turnInputs, prompts, cancelled>>
  /\ UNCHANGED outsideTurn

\* The capture checks of the loop on the call fc.
CaptureSkipOf(fc) == CaptureSkip(fc, functionCalls, lastUserMessage, recentCapture)

NextCall_Same(index) == index

\* for (const funcCall of functionCalls): the iteration after the one at
\* index.
NextCall(index) == index + 1

\* Whether the call is the docker logs call whose container name the loop
\* resolves first.
LogsPending(funcCall, pending) ==
  /\ IsExecuteCommand(funcCall)
  /\ ToLowerCase(CommandOf(funcCall.args)) = S_docker
  /\ ArrIncludes(ArgsOf(funcCall.args), S_logs)
  /\ pending

\* The call handleFunctionCall is given: the docker logs call with the
\* resolved container name, or the call as collected.
CallToHandle(funcCall, logsPending) ==
  IF logsPending
    THEN ExecuteCommandCall(CommandOf(funcCall.args),
                            RewriteLogsArgs(ArgsOf(funcCall.args), S_web))
    ELSE funcCall

\* handleFunctionCall(call) up to its first host invocation or to its
\* response; response is what the execute_command case decides.
TurnHandleCall(call, response) ==
  IF call.name = <<>>
    THEN /\ turnResponse' = ToolResponse("missingName", FALSE,
                                         "Function call missing name")
         /\ turnPc' = "send"
         /\ UNCHANGED <<inFlight, turnExecuted, commandRequests,
                        notifiedCommandRequests, idsGenerated>>
  ELSE IF IsCapture(call)
    THEN \* listWindowsByProcess is invoked
         /\ inFlight' = inFlight + 1
         /\ turnExecuted' = Append(turnExecuted, turnIndex)
         /\ turnPc' = "listWindows"
         /\ UNCHANGED <<turnResponse, commandRequests,
                        notifiedCommandRequests, idsGenerated>>
  ELSE IF ~IsExecuteCommand(call)
    THEN /\ turnResponse' = ToolResponse("unknownFunction", FALSE,
                                         "Unknown function")
         /\ turnPc' = "send"
         /\ UNCHANGED <<inFlight, turnExecuted, commandRequests,
                        notifiedCommandRequests, idsGenerated>>
  ELSE IF invokedExecuteCommand(response)
    THEN \* executeCommand is invoked
         /\ inFlight' = inFlight + 1
         /\ turnExecuted' = Append(turnExecuted, turnIndex)
         /\ turnPc' = "command"
         /\ UNCHANGED <<turnResponse, commandRequests,
                        notifiedCommandRequests, idsGenerated>>
  ELSE \* needsApproval or blocked: generateId, onCommandRequest
       /\ idsGenerated' = idsGenerated + 1
       /\ turnResponse' = response
       /\ turnPc' = "send"
       /\ IF response.request_id \in notifiedCommandRequests
            THEN UNCHANGED <<commandRequests, notifiedCommandRequests>>
            ELSE /\ notifiedCommandRequests' =
                      notifiedCommandRequests \cup {response.request_id}
                 /\ commandRequests' =
                      Append(commandRequests, NewRequest(response))
       /\ UNCHANGED <<inFlight, turnExecuted>>

\* The iteration for funcCall once the capture checks are passed.
TurnStartCallWith(funcCall, logsPending, resolved, call) ==
  IF logsPending /\ ~resolved
    THEN \* no container of that name: the call is left out (continue)
         /\ pendingLogRequest' = FALSE
         /\ turnIndex' = NextCall(turnIndex)
         /\ turnPc' = "next"
         /\ UNCHANGED <<functionCalls, turnResponse, inFlight, commandRequests,
                        notifiedCommandRequests, idsGenerated, turnExecuted>>
    ELSE /\ functionCalls' =
              IF logsPending
                THEN [functionCalls EXCEPT ![turnIndex].args =
                        <<<<S_command, Get(funcCall.args, S_command)>>,
                          <<S_args, Arr(ArgsOf(call.args))>>>>]
                ELSE functionCalls
         /\ pendingLogRequest' = (pendingLogRequest /\ ~logsPending)
         /\ UNCHANGED turnIndex
         /\ \E response \in {handleFunctionCall(CommandOf(call.args), ArgsOf(call.args),
                                                "ok", idsGenerated + 1)} :
              TurnHandleCall(call, response)

\* An iteration of the loop starts: the capture checks, the docker logs
\* name resolution, and handleFunctionCall up to its first host invocation
\* or, when it invokes none, up to the sending of its response (with the
\* onCommandRequest notification in between).
TurnStartCall ==
  /\ turnPhase = "loop"
  /\ LoopMayStart(turnPc)
  /\ turnIndex <= Len(functionCalls)
  /\ \E resolved \in (IF ContainersMayBeKnown THEN BOOLEAN ELSE {FALSE}) :
       IF IsCapture(functionCalls[turnIndex])
            /\ CaptureSkipOf(functionCalls[turnIndex]) # "no"
         THEN /\ turnResponse' = ToolResponse("skipped", TRUE,
                                              CaptureSkipOf(functionCalls[turnIndex]))
              /\ turnPc' = "send"
              /\ UNCHANGED <<functionCalls, pendingLogRequest, turnIndex, inFlight,
                             commandRequests, notifiedCommandRequests,
                             idsGenerated, turnExecuted>>
         ELSE \E call \in {CallToHandle(functionCalls[turnIndex],
                                         LogsPending(functionCalls[turnIndex],
                                                     pendingLogRequest))} :
                TurnStartCallWith(
                  functionCalls[turnIndex],
                  LogsPending(functionCalls[turnIndex], pendingLogRequest),
                  resolved, call)
  /\ UNCHANGED <<turnPhase, functionCallSet, found, recentCapture, toolResults,
                 turnInputs, prompts, cancelled>>
  /\ UNCHANGED outsideTurn

\* executeCommand settles and handleFunctionCall returns its response.
TurnCommandSettles ==
  /\ turnPhase = "loop"
  /\ turnPc = "command"
  /\ inFlight > 0
  /\ \E host \in HostOutcomes :
       LET funcCall == functionCalls[turnIndex]
       IN  turnResponse' = handleFunctionCall(CommandOf(funcCall.args),
                                              ArgsOf(funcCall.args), host, 0)
  /\ inFlight' = inFlight - 1
  /\ turnPc' = "send"
  /\ UNCHANGED <<turnPhase, functionCalls, functionCallSet, found, pendingLogRequest,
                 recentCapture, turnIndex, toolResults, commandRequests,
                 notifiedCommandRequests, idsGenerated, turnExecuted, turnInputs,
                 prompts, cancelled>>
  /\ UNCHANGED outsideTurn

\* listWindowsByProcess settles: no window, several windows, an error, or
\* one window, for which captureWindowWithOCR is invoked next.
TurnWindowsListed ==
  /\ turnPhase = "loop"
  /\ turnPc = "listWindows"
  /\ inFlight > 0
  /\ \E windows \in {"none", "one", "many", "throw"} :
       IF windows = "one"
         THEN /\ turnPc' = "captureWindow"
              /\ UNCHANGED <<inFlight, turnResponse>>
         ELSE /\ turnPc' = "send"
              /\ inFlight' = inFlight - 1
              /\ turnResponse' =
                   IF windows = "none"
                     THEN ToolResponse("noWindows", FALSE, "No windows found")
                   ELSE IF windows = "many"
                     THEN ToolResponse("multipleWindows", FALSE, "undefined")
                   ELSE ToolResponse("failed", FALSE, "error.message")
  /\ UNCHANGED <<turnPhase, functionCalls, functionCallSet, found, pendingLogRequest,
                 recentCapture, turnIndex, toolResults, commandRequests,
                 notifiedCommandRequests, idsGenerated, turnExecuted, turnInputs,
                 prompts, cancelled>>
  /\ UNCHANGED outsideTurn

\* captureWindowWithOCR settles.
TurnWindowCaptured ==
  /\ turnPhase = "loop"
  /\ turnPc = "captureWindow"
  /\ inFlight > 0
  /\ \E captured \in BOOLEAN :
       turnResponse' = IF captured THEN ToolResponse("captured", TRUE, "undefined")
                       ELSE ToolResponse("failed", FALSE, "error.message")
  /\ inFlight' = inFlight - 1
  /\ turnPc' = "send"
  /\ UNCHANGED <<turnPhase, functionCalls, functionCallSet, found, pendingLogRequest,
                 recentCapture, turnIndex, toolResults, commandRequests,
                 notifiedCommandRequests, idsGenerated, turnExecuted, turnInputs,
                 prompts, cancelled>>
  /\ UNCHANGED outsideTurn

\* functionResponse.response.success && responseData?.image_base64
HasImage(response) == response.kind = "captured"

\* Whether the follow-up prompt is sent after the answer to the function
\* response of funcCall.
SendsFollowUp(funcCall, response, answer) ==
  /\ ~HasImage(response)
  /\ response.kind \notin {"skipped", "missingName"}
  /\ funcCall.name = S_execute_command
  /\ response.kind \notin {"needsApproval", "blocked"}
  /\ answer \in {"none", "short"}

\* The part of TurnSendResult that depends on the call and on the texts the
\* reasoning service returns.
TurnSendResultWith(funcCall, answer, reply) ==
  /\ toolResults' = Append(toolResults,
                           [index |-> turnIndex,
                            name |-> IF turnResponse.kind = "missingName"
                                       THEN S_unknown ELSE funcCall.name,
                            response |-> turnResponse,
                            answer |-> answer])
  /\ IF cancelled /\ ~HasImage(turnResponse) /\ answer # "none"
       THEN \* controller.enqueue of the answer throws
            /\ turnPhase' = "errored"
            /\ UNCHANGED <<prompts, pendingLogRequest, turnIndex>>
       ELSE /\ prompts' =
                 IF HasImage(turnResponse)
                   THEN Append(prompts, [kind |-> "image", index |-> turnIndex])
                 ELSE IF SendsFollowUp(funcCall, turnResponse, answer)
                   THEN Append(prompts, [kind |-> "followUp", index |-> turnIndex])
                 ELSE prompts
            /\ pendingLogRequest' =
                 IF /\ IsExecuteCommand(funcCall)
                    /\ turnResponse.kind = "output"
                    /\ ToLowerCase(CommandOf(funcCall.args)) = S_docker
                    /\ ArrIncludes(ArgsOf(funcCall.args), S_logs)
                   THEN FALSE
                   ELSE pendingLogRequest
            /\ IF /\ cancelled /\ reply # "none"
                  /\ (HasImage(turnResponse)
                        \/ SendsFollowUp(funcCall, turnResponse, answer))
                 THEN \* controller.enqueue of the reply throws
                      /\ turnPhase' = "errored"
                      /\ UNCHANGED turnIndex
                 ELSE /\ turnIndex' = NextCall(turnIndex)
                      /\ UNCHANGED turnPhase

\* chat.sendMessageStream([{functionResponse}]) and what follows it in the
\* iteration: the answer is read and enqueued, the follow-up prompt or the
\* image prompt is sent and its reply enqueued; the loop moves to the next
\* call.  controller.enqueue throws once the reader was cancelled, which
\* ends the handler in its catch block.
TurnSendResult ==
  /\ turnPhase = "loop"
  /\ turnPc = "send"
  /\ \E answer \in modelOutputs.answers, reply \in modelOutputs.answers :
       TurnSendResultWith(functionCalls[turnIndex], answer, reply)
  /\ turnResponse' = NoResponse
  /\ turnPc' = "next"
  /\ UNCHANGED <<functionCalls, functionCallSet, found, recentCapture,
                 inFlight, commandRequests, notifiedCommandRequests, idsGenerated,
                 turnExecuted, turnInputs, cancelled>>
  /\ UNCHANGED outsideTurn

\* The loop is over: flushPendingText, controller.close().
TurnClose ==
  /\ turnPhase = "loop"
  /\ turnPc = "next"
  /\ turnIndex > Len(functionCalls)
  /\ turnPhase' = IF cancelled THEN "errored" ELSE "closed"
  /\ UNCHANGED <<functionCalls, functionCallSet, found, loopVars, turnInputs, prompts,
                 cancelled>>
  /\ UNCHANGED outsideTurn

\* The caller cancels the reader of the stream while the handler runs.  The
\* stream is built with start() only: nothing in the handler is told.
TurnCancel ==
  /\ turnPhase \in {"stream", "schedule", "loop"}
  /\ ~cancelled
  /\ cancelled' = TRUE
  /\ UNCHANGED <<turnPhase, functionCalls, functionCallSet, found, loopVars, turnInputs,
                 prompts>>
  /\ UNCHANGED outsideTurn

TurnNext ==
  \/ TurnBegin
  \/ TurnScanChunk
  \/ TurnScanFullResponse
  \/ TurnSchedule
  \/ TurnStartCall
  \/ TurnCommandSettles
  \/ TurnWindowsListed
  \/ TurnWindowCaptured
  \/ TurnSendResult
  \/ TurnClose

SpecTurn == TurnInit /\ [][TurnNext]_vars

-----------------------------------------------------------------------------
(* Properties of the turn                                                  *)

\* The call a found shape stands for: its name and the arguments it carries.
ShapeCall(shape) ==
  [name |-> CallName(shape),
   args |-> IF shape.args.t = "object" THEN shape.args.v ELSE shape.arguments.v]

\* Same name and same serialized arguments.
SameCall(a, b) ==
  a.name = b.name /\ StringifyObject(a.args) = StringifyObject(b.args)

RECURSIVE FirstSeen(_, _)
\* The calls of the found shapes, each kept where it was first seen.
FirstSeen(shapes, kept) ==
  IF Len(shapes) = 0 THEN kept
  ELSE FirstSeen(Tail(shapes),
                 IF \E i \in DOMAIN kept : SameCall(kept[i], ShapeCall(Head(shapes).shape))
                   THEN kept
                   ELSE Append(kept, ShapeCall(Head(shapes).shape)))

IsSuffix(s, t) ==
  Len(s) <= Len(t) /\ SubSeq(t, Len(t) - Len(s) + 1, Len(t)) = s

\* C11: the function calls found in the chunks and in the full response are
\* collected once per name and serialized arguments, in the order they were
\* first seen (the scheduled docker commands are put in front of them), and
\* a host capability is invoked at most once in the turn for each of them.
C11_CollectedOnceExecutedOnce ==
  /\ IF turnPhase \in {"stream", "schedule"}
       THEN functionCalls = FirstSeen(found, <<>>)
       ELSE IsSuffix(FirstSeen(found, <<>>), functionCalls)
  /\ \A f \in DOMAIN found :
       /\ Cardinality({i \in DOMAIN functionCalls :
                         SameCall(functionCalls[i], ShapeCall(found[f].shape))}) = 1
       /\ Cardinality({k \in DOMAIN turnExecuted :
                         SameCall(functionCalls[turnExecuted[k]],
                                  ShapeCall(found[f].shape))}) <= 1
       /\ Cardinality({k \in DOMAIN toolResults :
                         SameCall(functionCalls[toolResults[k].index],
                                  ShapeCall(found[f].shape))}) <= 1

C11_Witness ==
  /\ turnPhase = "closed"
  /\ Len(found) = 2
  /\ found[1].chunk = 1
  /\ found[2].chunk = 0
  /\ found[1].shape.args.t = "object"
  /\ found[2].shape.arguments.t = "object"
  /\ SameCall(ShapeCall(found[1].shape), ShapeCall(found[2].shape))
  /\ Len(functionCalls) = 1
  /\ turnExecuted = <<1>>
  /\ Len(toolResults) = 1

\* The policy decision of the execute_command call at index i of the turn.
TurnPolicy(i) ==
  evaluateCommandPolicy(CommandOf(functionCalls[i].args), ArgsOf(functionCalls[i].args))

\* The results sent for execute_command calls the policy does not let run.
GatedResults ==
  {k \in DOMAIN toolResults :
     /\ toolResults[k].name = S_execute_command
     /\ TurnPolicy(toolResults[k].index).level # "auto"}

\* C18: an execute_command call whose policy decision is not auto is not
\* executed in the turn, the reasoning service gets a failure response
\* carrying the policy's reason, and onCommandRequest is called exactly once
\* for it, with a request of a new id, of status pending (approval_required)
\* or blocked (blocked), and with the command and args of the call.
C18_GatedCallIsRequestedOnce ==
  /\ \A k \in GatedResults :
       LET index == toolResults[k].index
           response == toolResults[k].response
           funcCall == functionCalls[index]
           requests == {j \in DOMAIN commandRequests :
                          commandRequests[j].id = response.request_id}
       IN  /\ \A e \in DOMAIN turnExecuted : turnExecuted[e] # index
           /\ response.success = FALSE
           /\ response.error = TurnPolicy(index).reason
           /\ Cardinality(requests) = 1
           /\ \A j \in requests :
                /\ commandRequests[j].command = CommandOf(funcCall.args)
                /\ commandRequests[j].args = ArgsOf(funcCall.args)
                /\ commandRequests[j].status =
                     IF TurnPolicy(index).level = "approval_required"
                       THEN "pending" ELSE "blocked"
  /\ \A i, j \in DOMAIN commandRequests :
       commandRequests[i].id = commandRequests[j].id => i = j
  /\ Len(commandRequests) =
       Cardinality(GatedResults)
         + (IF turnPc = "send" /\ turnResponse.kind \in {"needsApproval", "blocked"}
              THEN 1 ELSE 0)

C18_Witness ==
  /\ turnPhase = "closed"
  /\ Cardinality(GatedResults) = 2
  /\ \E k \in GatedResults : toolResults[k].response.kind = "needsApproval"
  /\ \E k \in GatedResults : toolResults[k].response.kind = "blocked"
  /\ Len(commandRequests) = 2
  /\ turnExecuted = <<>>

\* C19: the calls of a turn are handled one at a time and in list order: at
\* most one host-capability invocation is in flight, the calls for which a
\* capability was invoked and the responses sent follow the list order, the
\* response to a call is sent before any later call starts, and the calls
\* the model asked for stand in the list in the order they were first seen.
C19_OneCallAtATime ==
  /\ inFlight <= 1
  /\ \A a, b \in DOMAIN toolResults :
       a < b => toolResults[a].index < toolResults[b].index
  /\ \A a, b \in DOMAIN turnExecuted : a < b => turnExecuted[a] < turnExecuted[b]
  /\ \A e \in DOMAIN turnExecuted :
       /\ turnExecuted[e] <= turnIndex
       /\ turnExecuted[e] < turnIndex =>
            \E k \in DOMAIN toolResults : toolResults[k].index = turnExecuted[e]
  /\ \A k \in DOMAIN toolResults : toolResults[k].index < turnIndex
  /\ inFlight > 0 =>
       /\ Len(turnExecuted) > 0
       /\ turnExecuted[Len(turnExecuted)] = turnIndex
  /\ turnPhase \in {"loop", "closed"} =>
       LET firstSeen == FirstSeen(found, <<>>)
       IN  \A i, j \in DOMAIN firstSeen :
             i < j =>
               \E p, q \in DOMAIN functionCalls :
                 /\ p < q
                 /\ SameCall(functionCalls[p], firstSeen[i])
                 /\ SameCall(functionCalls[q], firstSeen[j])

C19_Witness ==
  /\ turnPhase = "closed"
  /\ Len(functionCalls) = 2
  /\ Len(FirstSeen(found, <<>>)) = 2
  /\ turnExecuted = <<1, 2>>
  /\ Len(toolResults) = 2
  /\ \E k \in DOMAIN toolResults : toolResults[k].response.kind = "captured"
  /\ \E k \in DOMAIN toolResults : toolResults[k].response.kind = "output"

-----------------------------------------------------------------------------
(* What an approve call reports back                                       *)

\* C20: once an approved command has run, the message sent back into the
\* conversation tells its outcome: when executeCommand reported a failure
\* or threw, the message says that the command failed.
C20_FailureIsReported ==
  \A c \in BagToSet(running) :
    (c.op = "approve" /\ c.at = "sendMessage" /\ c.result # "ok")
      => c.message = "Command execution failed"

-----------------------------------------------------------------------------
(* Window selection (src/services/gemini.ts): the texts                    *)

Digits == <<"0", "1", "2", "3", "4", "5", "6", "7", "8", "9">>

IsDigit(c) == \E i \in DOMAIN Digits : Digits[i] = c

DigitValue(c) == (CHOOSE i \in DOMAIN Digits : Digits[i] = c) - 1

\* \w of a regular expression
IsWordChar(c) ==
  \/ \E i \in DOMAIN LowerLetters : LowerLetters[i] = c
  \/ \E i \in DOMAIN UpperLetters : UpperLetters[i] = c
  \/ IsDigit(c)
  \/ c = "_"

\* The replace that drops the double quote, the quote and the backquote
\* (written "backquote" here) from a text.
StripQuotes(s) == SelectSeq(s, LAMBDA c : c \notin {"\"", "'", "backquote"})

RECURSIVE TrimStart(_)
TrimStart(s) ==
  IF Len(s) > 0 /\ Head(s) = " " THEN TrimStart(Tail(s)) ELSE s

RECURSIVE TrimEnd(_)
TrimEnd(s) ==
  IF Len(s) > 0 /\ s[Len(s)] = " " THEN TrimEnd(SubSeq(s, 1, Len(s) - 1)) ELSE s

\* String.prototype.trim
Trim(s) == TrimEnd(TrimStart(s))

StartsWith(s, prefix) ==
  Len(prefix) <= Len(s) /\ SubSeq(s, 1, Len(prefix)) = prefix

EndsWith(s, suffix) ==
  Len(suffix) <= Len(s) /\ SubSeq(s, Len(s) - Len(suffix) + 1, Len(s)) = suffix

RECURSIVE SplitOn(_, _, _)
\* s.split(separator), current being the part read so far
SplitOn(s, separator, current) ==
  IF Len(s) = 0 THEN <<current>>
  ELSE IF StartsWith(s, separator)
    THEN <<current>> \o SplitOn(SubSeq(s, Len(separator) + 1, Len(s)), separator, <<>>)
  ELSE SplitOn(Tail(s), separator, Append(current, Head(s)))

RECURSIVE WordRuns(_, _)
\* The text cut at every \b: maximal runs of word characters and of other
\* characters, in order.
WordRuns(s, current) ==
  IF Len(s) = 0 THEN (IF Len(current) = 0 THEN <<>> ELSE <<current>>)
  ELSE IF Len(current) = 0 \/ IsWordChar(current[1]) = IsWordChar(Head(s))
    THEN WordRuns(Tail(s), Append(current, Head(s)))
  ELSE <<current>> \o WordRuns(Tail(s), <<Head(s)>>)

RECURSIVE Concat(_)
Concat(parts) ==
  IF Len(parts) = 0 THEN <<>> ELSE Head(parts) \o Concat(Tail(parts))

\* The words normalizeWindowText replaces by a space.
FillerWords ==
  {<<"w", "i", "n", "d", "o", "w">>, <<"a", "p", "p">>, <<"t", "a", "b">>, <<"p", "r", "o", "j", "e", "c", "t">>, <<"f", "i", "l", "e">>, <<"v", "i", "e", "w">>, <<"e", "d", "i", "t", "o", "r">>,
   <<"p", "a", "n", "e", "l">>, <<"s", "c", "r", "e", "e", "n">>, <<"p", "a", "n", "e">>, <<"t", "h", "e">>, <<"t", "h", "i", "s">>, <<"t", "h", "a", "t">>, <<"o", "n", "e">>,
   <<"p", "l", "e", "a", "s", "e">>, <<"f", "o", "c", "u", "s">>, <<"s", "e", "l", "e", "c", "t">>, <<"c", "h", "o", "o", "s", "e">>, <<"o", "p", "e", "n">>, <<"s", "h", "o", "w">>,
   <<"d", "i", "s", "p", "l", "a", "y">>, <<"l", "o", "o", "k">>, <<"a", "t">>, <<"i", "n", "t", "o">>, <<"o", "n">>}

RECURSIVE CollapseSpaces(_)
\* .replace(/\s+/g, " ")
CollapseSpaces(s) ==
  IF Len(s) < 2 THEN s
  ELSE IF s[1] = " " /\ s[2] = " " THEN CollapseSpaces(Tail(s))
  ELSE <<Head(s)>> \o CollapseSpaces(Tail(s))

normalizeWindowText(text) ==
  LET runs == WordRuns(StripQuotes(ToLowerCase(text)), <<>>)
      replaced == [i \in DOMAIN runs |->
                     IF runs[i] \in FillerWords THEN <<" ">> ELSE runs[i]]
  IN  Trim(CollapseSpaces(Concat(replaced)))

\* normalizedRequested.split(" ").filter(Boolean)
Tokens(normalized) ==
  SelectSeq(SplitOn(normalized, <<" ">>, <<>>), LAMBDA part : Len(part) > 0)

RECURSIVE ParseInt(_, _)
\* parseInt(digits, 10)
ParseInt(digits, value) ==
  IF Len(digits) = 0 THEN value
  ELSE ParseInt(Tail(digits), 10 * value + DigitValue(Head(digits)))

\* The numbers /\b(\d+)\b/ can match in the text, in order: the runs of
\* word characters made of digits only.
DigitRuns(input) ==
  SelectSeq(WordRuns(input, <<>>), LAMBDA run : \A i \in DOMAIN run : IsDigit(run[i]))

ORDINAL_WORDS ==
  <<<<"f", "i", "r", "s", "t">>, <<"s", "e", "c", "o", "n", "d">>, <<"t", "h", "i", "r", "d">>, <<"f", "o", "u", "r", "t", "h">>, <<"f", "i", "f", "t", "h">>, <<"s", "i", "x", "t", "h">>,
    <<"s", "e", "v", "e", "n", "t", "h">>, <<"e", "i", "g", "h", "t", "h">>, <<"n", "i", "n", "t", "h">>, <<"t", "e", "n", "t", "h">>>>

\* extractRequestedIndex; -1 stands for null.
extractRequestedIndex(input, total) ==
  LET runs == DigitRuns(input)
      candidate == IF Len(runs) > 0 THEN ParseInt(runs[1], 0) ELSE 0
      lower == ToLowerCase(input)
      words == {value \in DOMAIN ORDINAL_WORDS :
                  Includes(lower, ORDINAL_WORDS[value]) /\ value >= 1 /\ value <= total}
  IN  IF Len(runs) > 0 /\ candidate >= 1 /\ candidate <= total
        THEN candidate - 1
      ELSE IF words # {}
        THEN (CHOOSE value \in words : \A other \in words : value <= other) - 1
      ELSE -1

-----------------------------------------------------------------------------
(* Window selection: the options and the resolver                          *)

\* The WindowSelectionOption built from an enumerated window.
ToOption(w) ==
  LET processSuffix == <<" ", "-", " ">> \o w.process_name
      cleaned == IF EndsWith(w.title, processSuffix)
                   THEN SubSeq(w.title, 1, Len(w.title) - Len(processSuffix))
                   ELSE w.title
      parts == SplitOn(cleaned, <<" ", "-", " ">>, <<>>)
  IN  [title |-> w.title,
       displayName |-> IF Len(parts) > 1 THEN parts[Len(parts)] ELSE cleaned,
       processName |-> w.process_name,
       isActive |-> w.is_active]

ToOptions(windows) == [i \in DOMAIN windows |-> ToOption(windows[i])]

\* null as a resolver result; pass tells which pass of
\* resolveWindowSelectionFromOptions decided.
NoTarget == NoWindowTarget

Target(option, processName, pass) ==
  [found |-> TRUE, title |-> option.title, displayName |-> option.displayName,
   processName |-> processName, pass |-> pass]

\* options.find(predicate) as the index of the option found, or 0.
FirstIndex(matching) ==
  IF matching = {} THEN 0 ELSE CHOOSE i \in matching : \A j \in matching : i <= j

Abs(n) == IF n < 0 THEN -n ELSE n

Max(a, b) == IF a >= b THEN a ELSE b

\* The score the fuzzy loop gives an option.
FuzzyScore(option, normalizedRequested, tokens) ==
  LET normalizedTitle == normalizeWindowText(option.title)
      normalizedDisplay == normalizeWindowText(option.displayName)
      matchedTokens ==
        SelectSeq(tokens,
                  LAMBDA token :
                    /\ Len(token) > 1
                    /\ (Includes(normalizedTitle, token)
                          \/ Includes(normalizedDisplay, token)))
  IN  (IF Len(normalizedRequested) > 0
            /\ (StartsWith(normalizedTitle, normalizedRequested)
                  \/ StartsWith(normalizedDisplay, normalizedRequested))
         THEN 60
       ELSE IF Len(normalizedRequested) > 0
            /\ (Includes(normalizedTitle, normalizedRequested)
                  \/ Includes(normalizedDisplay, normalizedRequested))
         THEN 45
       ELSE 0)
      + (IF Len(matchedTokens) > 0
           THEN Len(matchedTokens) * 10
                  + (IF Len(matchedTokens) = Len(tokens) THEN 10 ELSE 0)
           ELSE 0)
      + (IF option.isActive THEN 5 ELSE 0)
      + (IF Len(normalizedRequested) > 0 /\ Len(normalizedTitle) > 0
           THEN Max(0, 8 - Abs(Len(normalizedTitle) - Len(normalizedRequested)))
           ELSE 0)

RECURSIVE FuzzyBest(_, _, _, _)
\* for (const option of options) { ... if (score > bestScore) ... }, on the
\* scores of the options; bestOption 0 stands for null.
FuzzyBest(scores, i, bestOption, bestScore) ==
  IF i > Len(scores) THEN [bestOption |-> bestOption, bestScore |-> bestScore]
  ELSE IF scores[i] > bestScore
    THEN FuzzyBest(scores, i + 1, i, scores[i])
  ELSE FuzzyBest(scores, i + 1, bestOption, bestScore)

\* if (bestOption && bestScore >= 15)
FuzzyAccepts_AnyScore(best) == best.bestOption # 0

FuzzyAccepts(best) == best.bestOption # 0 /\ best.bestScore >= 15

resolveWindowSelectionFromOptions(processName, options, requested) ==
  LET cleaned == Trim(StripQuotes(requested))
      indexFromWords == extractRequestedIndex(cleaned, Len(options))
      normalizedRequested == normalizeWindowText(cleaned)
      tokens == Tokens(normalizedRequested)
      directTitleMatch ==
        FirstIndex({i \in DOMAIN options :
                      ToLowerCase(options[i].title) = ToLowerCase(cleaned)})
      directDisplayMatch ==
        FirstIndex({i \in DOMAIN options :
                      ToLowerCase(options[i].displayName) = ToLowerCase(cleaned)})
      normalizedMatches ==
        FirstIndex({i \in DOMAIN options :
                      \/ normalizeWindowText(options[i].title) = normalizedRequested
                      \/ normalizeWindowText(options[i].displayName) = normalizedRequested})
      scores == [i \in DOMAIN options |->
                   FuzzyScore(options[i], normalizedRequested, tokens)]
      best == FuzzyBest(scores, 1, 0, 0)
  IN  IF Len(requested) = 0 \/ Len(cleaned) = 0 THEN NoTarget
      ELSE IF indexFromWords # -1
        THEN Target(options[indexFromWords + 1], processName, "index")
      ELSE IF directTitleMatch # 0
        THEN Target(options[directTitleMatch], processName, "title")
      ELSE IF directDisplayMatch # 0
        THEN Target(options[directDisplayMatch], processName, "displayName")
      ELSE IF normalizedMatches # 0
        THEN Target(options[normalizedMatches], processName, "normalized")
      ELSE IF FuzzyAccepts(best)
        THEN Target(options[best.bestOption], processName, "fuzzy")
      ELSE NoTarget

-----------------------------------------------------------------------------
(* Window selection: windowSelectionCache                                  *)
(* The map is a sequence of entries in insertion order; the clock is in    *)
(* milliseconds.                                                           *)

WINDOW_SELECTION_TTL == 2 * 60 * 1000

\* Map.prototype.set: a present key keeps its place.
MapSet(map, entry) ==
  IF \E i \in DOMAIN map : map[i].key = entry.key
    THEN [i \in DOMAIN map |-> IF map[i].key = entry.key THEN entry ELSE map[i]]
    ELSE Append(map, entry)

MapDelete(map, key) == SelectSeq(map, LAMBDA e : e.key # key)

cacheWindowOptions_NotStored(map, t, processName, options) == map

cacheWindowOptions(map, t, processName, options) ==
  LET key == ToLowerCase(Trim(processName))
  IN  IF Len(key) = 0 THEN map
      ELSE MapSet(map, [key |-> key, options |-> options, timestamp |-> t])

\* getCachedWindowOptions: found FALSE stands for null; age is the age of
\* the entry that was there (-1: none); map is the cache left behind.
getCachedWindowOptions(map, t, processName) ==
  LET key == ToLowerCase(Trim(processName))
      cached == SelectSeq(map, LAMBDA e : e.key = key)
  IN  IF Len(cached) = 0
        THEN [found |-> FALSE, options |-> <<>>, age |-> -1, map |-> map]
      ELSE IF t - cached[1].timestamp > WINDOW_SELECTION_TTL
        THEN [found |-> FALSE, options |-> <<>>, age |-> t - cached[1].timestamp,
              map |-> MapDelete(map, key)]
      ELSE [found |-> TRUE, options |-> cached[1].options,
            age |-> t - cached[1].timestamp, map |-> map]

getAllCachedWindowOptions(map, t) ==
  LET kept == SelectSeq(map, LAMBDA e : t - e.timestamp <= WINDOW_SELECTION_TTL)
  IN  [entries |-> [i \in DOMAIN kept |->
                      [processName |-> kept[i].key, options |-> kept[i].options,
                       age |-> t - kept[i].timestamp]],
       map |-> kept]

\* The score resolveWindowSelection gives what an entry resolved to.
EntryScore(resolved, requested) ==
  LET normalizedRequested == normalizeWindowText(requested)
      normalizedCandidate ==
        normalizeWindowText(IF Len(resolved.displayName) > 0
                              THEN resolved.displayName ELSE resolved.title)
      tokens == Tokens(normalizedRequested)
      matchedTokens ==
        SelectSeq(tokens,
                  LAMBDA token : Len(token) > 1 /\ Includes(normalizedCandidate, token))
  IN  IF normalizedCandidate = normalizedRequested THEN 100
      ELSE IF StartsWith(normalizedCandidate, normalizedRequested) THEN 80
      ELSE IF Includes(normalizedCandidate, normalizedRequested) THEN 60
      ELSE Len(matchedTokens) * 10

RECURSIVE BestEntry(_, _, _, _, _)
RECURSIVE BestEntryWith(_, _, _, _, _, _)
\* for (const entry of allOptions) { ... if (score > bestScore) ... }
BestEntry(entries, requested, i, bestMatch, bestScore) ==
  IF i > Len(entries) THEN bestMatch
  ELSE BestEntryWith(entries, requested, i, bestMatch, bestScore,
                     resolveWindowSelectionFromOptions(
                       entries[i].processName, entries[i].options, requested))

\* The body of that loop, resolved being what the entry resolved to.
BestEntryWith(entries, requested, i, bestMatch, bestScore, resolved) ==
  IF resolved.found /\ EntryScore(resolved, requested) > bestScore
    THEN BestEntry(entries, requested, i + 1, resolved, EntryScore(resolved, requested))
    ELSE BestEntry(entries, requested, i + 1, bestMatch, bestScore)

\* resolveWindowSelection from getAllCachedWindowOptions() on.
ResolveAmongAll(allOptions, requested) ==
  [target |-> BestEntry(allOptions.entries, requested, 1, NoTarget, 0),
   map |-> allOptions.map]

\* resolveWindowSelection once the process's own options were tried.
ResolveAfterOwn(ownResolved, afterOwn, t, requested) ==
  IF ownResolved.found THEN [target |-> ownResolved, map |-> afterOwn]
  ELSE ResolveAmongAll(getAllCachedWindowOptions(afterOwn, t), requested)

\* resolveWindowSelection with own = getCachedWindowOptions(processName).
ResolveWithOwn(own, processName, t, requested) ==
  ResolveAfterOwn(
    IF own.found /\ Len(own.options) > 0
      THEN resolveWindowSelectionFromOptions(processName, own.options, requested)
      ELSE NoTarget,
    own.map, t, requested)

\* resolveWindowSelection: the target (or NoTarget) and the cache left
\* behind.  An undefined processName is the empty text.
resolveWindowSelection(map, t, processName, requested) ==
  IF Len(requested) = 0 THEN [target |-> NoTarget, map |-> map]
  ELSE IF Len(processName) > 0
    THEN ResolveWithOwn(getCachedWindowOptions(map, t, processName), processName, t,
                        requested)
  ELSE ResolveAmongAll(getAllCachedWindowOptions(map, t), requested)

-----------------------------------------------------------------------------
(* The analysis cache (windowAnalysis.ts)                                  *)
(* A capture's cache key is a number: distinct keys are distinct numbers.  *)

CACHE_TTL == 5 * 60 * 1000

MAX_CACHE_SIZE == 50

\* cleanExpiredEntries at clock value t
cleanExpiredEntries(map, t) ==
  SelectSeq(map, LAMBDA entry : ~(t - entry.timestamp > CACHE_TTL))

\* The entry evictIfNeeded's loop ends on: the first one of the smallest
\* timestamp among those stamped before oldestTime = Date.now(); 0: none.
OldestIndex(map, t) ==
  LET older == {i \in DOMAIN map : map[i].timestamp < t}
  IN  IF older = {} THEN 0
      ELSE CHOOSE i \in older :
             \A j \in older :
               \/ map[i].timestamp < map[j].timestamp
               \/ (map[i].timestamp = map[j].timestamp /\ i <= j)

RemoveAt(map, index) ==
  SubSeq(map, 1, index - 1) \o SubSeq(map, index + 1, Len(map))

evictIfNeeded(map, t) ==
  IF Len(map) >= MAX_CACHE_SIZE /\ OldestIndex(map, t) # 0
    THEN RemoveAt(map, OldestIndex(map, t))
    ELSE map

\* The test for a cache hit, always passed by an entry that is present.
IsCacheHit_NoTtl(map, t, cacheKey) ==
  \E i \in DOMAIN map : map[i].key = cacheKey

\* cached && Date.now() - cached.timestamp < CACHE_TTL
IsCacheHit(map, t, cacheKey) ==
  \E i \in DOMAIN map : map[i].key = cacheKey /\ t - map[i].timestamp < CACHE_TTL

\* The age of the entry of a key, or -1 when the map has none.
AgeOf(map, t, cacheKey) ==
  IF \E i \in DOMAIN map : map[i].key = cacheKey
    THEN t - map[CHOOSE i \in DOMAIN map : map[i].key = cacheKey].timestamp
    ELSE -1

-----------------------------------------------------------------------------
(* What the host enumerates                                                *)

ChromeInbox ==
  [title |-> <<"I", "n", "b", "o", "x", " ", "-", " ", "C", "h", "r", "o", "m", "e">>, process_name |-> <<"C", "h", "r", "o", "m", "e">>, is_active |-> FALSE]

ChromeDocs ==
  [title |-> <<"D", "o", "c", "s", " ", "-", " ", "C", "h", "r", "o", "m", "e">>, process_name |-> <<"C", "h", "r", "o", "m", "e">>, is_active |-> FALSE]

ChromeMaps ==
  [title |-> <<"M", "a", "p", "s", " ", "-", " ", "C", "h", "r", "o", "m", "e">>, process_name |-> <<"C", "h", "r", "o", "m", "e">>, is_active |-> FALSE]

\* A window whose title holds a number.
ChromePage1 ==
  [title |-> <<"P", "a", "g", "e", " ", "1", " ", "-", " ", "C", "h", "r", "o", "m", "e">>, process_name |-> <<"C", "h", "r", "o", "m", "e">>, is_active |-> FALSE]

DockerContainers ==
  [title |-> <<"C", "o", "n", "t", "a", "i", "n", "e", "r", "s", " ", "-", " ", "D", "o", "c", "k", "e", "r", " ", "D", "e", "s", "k", "t", "o", "p">>, process_name |-> <<"D", "o", "c", "k", "e", "r", " ", "D", "e", "s", "k", "t", "o", "p">>,
   is_active |-> TRUE]

\* What listWindowsByProcess may return for a process name: no window, or
\* windows whose owner process carries the name asked for in another
\* spelling.
HostWindowLists(processName) ==
  IF Includes(ToLowerCase(processName), <<"c", "h", "r", "o", "m", "e">>)
    THEN {<<>>,
          <<ChromeInbox, [ChromeDocs EXCEPT !.is_active = TRUE]>>,
          <<ChromeInbox, ChromeDocs, ChromeMaps>>,
          <<ChromeInbox, ChromeDocs, ChromePage1>>,
          <<ChromePage1>>}
  ELSE IF Includes(ToLowerCase(processName), <<"d", "o", "c", "k", "e", "r">>)
    THEN {<<>>, <<DockerContainers>>}
  ELSE {<<>>}

-----------------------------------------------------------------------------
(* Specification of the two caches: analyzeWindowCapture calls, which may  *)
(* overlap, and reads and writes of windowSelectionCache, while the clock  *)
(* advances.  The analysis cache starts as earlier analyses left it.  The  *)
(* caches share nothing but the clock: a behaviour works on one of them.   *)

MaxAnalyses == 2

MaxTicks == 1

\* By how much the clock advances between two steps.
ClockSteps == {1, WINDOW_SELECTION_TTL, CACHE_TTL}

\* The cache after n analyses of distinct captures, one clock tick apart or
\* all within one clock value.
FilledCache(n, apart) ==
  [i \in 1..n |-> [key |-> i, timestamp |-> IF apart THEN i ELSE 0]]

CacheInit ==
  /\ PolicyIdle
  /\ ChatInit
  /\ TurnIdle
  /\ WindowsIdle
  /\ \E n \in {0, MAX_CACHE_SIZE - 1, MAX_CACHE_SIZE}, apart \in BOOLEAN :
       /\ cache = FilledCache(n, apart)
       /\ now = IF apart THEN n ELSE 0
  /\ ticks = 0
  /\ windowSelectionCache = <<>>
  /\ analyzing = EmptyBag
  /\ analysesStarted = 0
  /\ lastRead = NoRead
  /\ lastCapture = NoCapture
  /\ callBegun = NoCallBegun

\* The time that may pass in one step: between the enumeration of a call
\* and its resolver the handler only waits for a timer of 300 ms.
ClockStepsNow ==
  IF winPc = "resolve" /\ winListed.invoked
    THEN {step \in ClockSteps : step < WINDOW_SELECTION_TTL}
    ELSE ClockSteps

\* Time passes.
Tick ==
  /\ ticks < MaxTicks
  /\ \E step \in ClockStepsNow : now' = now + step
  /\ ticks' = ticks + 1
  /\ UNCHANGED <<windowSelectionCache, analysisVars, winVars, polVars, chatVars, turnVars>>

\* The behaviour works on the analysis cache / on windowSelectionCache.
OnAnalysisCache == windowSelectionCache = <<>> /\ lastRead.of \in {"none", "analysis"}

OnWindowSelectionCache == cache = <<>> /\ analysesStarted = 0

\* The keys of the captures analysed next: a capture not seen before, the
\* one first in the cache, the one last in it.
CaptureKeys ==
  {MAX_CACHE_SIZE + analysesStarted + 1}
    \cup (IF Len(cache) > 0 THEN {cache[1].key, cache[Len(cache)].key} ELSE {})

\* How performAnalysis ends: with the analysis, or with an error because
\* the model is not initialised, the request failed, or the answer is no
\* JSON of an analysis.
AnalysisOutcomes == {"analysis", "notInitialised", "requestError", "unparsable"}

performAnalysis(outcome) == IF outcome = "analysis" THEN "analysis" ELSE "throws"

\* What analyzeWindowCapture returns once performAnalysis has settled: the
\* catch block turns an error into null.
AnalysisReturned(settled) == IF settled = "analysis" THEN "analysis" ELSE "null"

CacheAfterAnalysis_SetFirst(map, cacheKey, t, settled) ==
  MapSet(map, [key |-> cacheKey, timestamp |-> t])

\* cache.set(cacheKey, ...) stands after the await of performAnalysis.
CacheAfterAnalysis(map, cacheKey, t, settled) ==
  IF settled = "analysis"
    THEN MapSet(map, [key |-> cacheKey, timestamp |-> t])
    ELSE map

\* What captureWindowWithOCR returns: the capture of the host, with the
\* analysis when analyzeWindowCapture returned one.  outcome tells how the
\* analysis was come by.
CaptureResult(cacheKey, outcome, returned) ==
  [key |-> cacheKey, outcome |-> outcome, analyzeWindowCapture |-> returned,
   capture |-> "returned",
   analysis |-> IF returned = "analysis" THEN "present" ELSE "absent"]

\* analyzeWindowCapture up to its return of the cached analysis or to its
\* await of performAnalysis.
AnalyzeWindowCapture ==
  /\ OnAnalysisCache
  /\ analysesStarted < MaxAnalyses
  /\ analysesStarted' = analysesStarted + 1
  /\ \E cacheKey \in CaptureKeys :
       LET cleaned == cleanExpiredEntries(cache, now)
       IN  IF IsCacheHit(cleaned, now, cacheKey)
             THEN /\ cache' = cleaned
                  /\ lastRead' = [of |-> "analysis",
                                  returned |-> <<AgeOf(cleaned, now, cacheKey)>>,
                                  passedOver |-> <<>>]
                  /\ lastCapture' = CaptureResult(cacheKey, "cached", "analysis")
                  /\ UNCHANGED <<analyzing, callBegun>>
             ELSE /\ cache' = evictIfNeeded(cleaned, now)
                  /\ lastRead' = [of |-> "analysis",
                                  returned |-> <<>>,
                                  passedOver |->
                                    IF AgeOf(cache, now, cacheKey) = -1 THEN <<>>
                                    ELSE <<AgeOf(cache, now, cacheKey)>>]
                  /\ analyzing' = analyzing (+) SetToBag({cacheKey})
                  /\ callBegun' = [key |-> cacheKey, before |-> cache,
                                   alone |-> analyzing = EmptyBag]
                  /\ UNCHANGED lastCapture
  /\ UNCHANGED <<clockVars>>
  /\ UNCHANGED outsideCache

\* performAnalysis settles: the analysis is stored and returned, or the
\* error is caught and null returned; captureWindowWithOCR then returns the
\* capture.
PerformAnalysisSettles ==
  /\ \E cacheKey \in BagToSet(analyzing), outcome \in AnalysisOutcomes :
       /\ analyzing' = analyzing (-) SetToBag({cacheKey})
       /\ cache' = CacheAfterAnalysis(cache, cacheKey, now, performAnalysis(outcome))
       /\ lastCapture' = CaptureResult(cacheKey, outcome,
                                       AnalysisReturned(performAnalysis(outcome)))
  /\ UNCHANGED <<clockVars, analysesStarted, lastRead, callBegun>>
  /\ UNCHANGED outsideCache

CachedProcessNames == {<<"c", "h", "r", "o", "m", "e">>, <<"d", "o", "c", "k", "e", "r", " ", "d", "e", "s", "k", "t", "o", "p">>}

\* cacheWindowOptions(processName, windowOptions) after an enumeration
CacheWindowOptionsCall ==
  /\ OnWindowSelectionCache
  /\ \E processName \in CachedProcessNames :
       \E windows \in HostWindowLists(processName) \ {<<>>} :
         windowSelectionCache' =
           cacheWindowOptions(windowSelectionCache, now, processName, ToOptions(windows))
  /\ UNCHANGED <<now, ticks, analysisVars>>
  /\ UNCHANGED outsideCache

GetCachedWindowOptionsCall ==
  /\ OnWindowSelectionCache
  /\ \E processName \in CachedProcessNames :
       LET got == getCachedWindowOptions(windowSelectionCache, now, processName)
       IN  /\ windowSelectionCache' = got.map
           /\ lastRead' = [of |-> "options",
                           returned |-> IF got.found THEN <<got.age>> ELSE <<>>,
                           passedOver |-> IF got.found \/ got.age = -1 THEN <<>>
                                          ELSE <<got.age>>]
  /\ UNCHANGED <<now, ticks, cache, analyzing, analysesStarted, lastCapture, callBegun>>
  /\ UNCHANGED outsideCache

GetAllCachedWindowOptionsCall ==
  /\ OnWindowSelectionCache
  /\ LET all == getAllCachedWindowOptions(windowSelectionCache, now)
         dropped == SelectSeq(windowSelectionCache,
                              LAMBDA e : \A i \in DOMAIN all.map : all.map[i].key # e.key)
     IN  /\ windowSelectionCache' = all.map
         /\ lastRead' = [of |-> "allOptions",
                         returned |-> [i \in DOMAIN all.entries |-> all.entries[i].age],
                         passedOver |-> [i \in DOMAIN dropped |-> now - dropped[i].timestamp]]
  /\ UNCHANGED <<now, ticks, cache, analyzing, analysesStarted, lastCapture, callBegun>>
  /\ UNCHANGED outsideCache

CacheNext ==
  \/ Tick
  \/ AnalyzeWindowCapture
  \/ PerformAnalysisSettles
  \/ CacheWindowOptionsCall
  \/ GetCachedWindowOptionsCall
  \/ GetAllCachedWindowOptionsCall

SpecCache == CacheInit /\ [][CacheNext]_vars

-----------------------------------------------------------------------------
(* Properties of the caches                                                *)

\* An analysis is started on a cache that is at capacity once the expired
\* entries are cleaned.
InsertsAtCapacity ==
  /\ analysesStarted' = analysesStarted + 1
  /\ analyzing' # analyzing
  /\ Len(cleanExpiredEntries(cache, now)) >= MAX_CACHE_SIZE

\* One entry of the smallest timestamp is gone from the cleaned cache.
EvictsTheOldest ==
  LET cleaned == cleanExpiredEntries(cache, now)
  IN  \E i \in DOMAIN cleaned :
        /\ cache' = RemoveAt(cleaned, i)
        /\ \A j \in DOMAIN cleaned : cleaned[i].timestamp <= cleaned[j].timestamp

\* C12: the analysis cache never holds more than MAX_CACHE_SIZE entries,
\* and an analysis whose result is to be inserted at capacity evicts
\* exactly one entry, one of the smallest timestamp, also when entries
\* carry the current clock value as their timestamp.
C12_CacheBoundedOldestEvicted ==
  /\ [](Len(cache) <= MAX_CACHE_SIZE)
  /\ [][InsertsAtCapacity => EvictsTheOldest]_vars

\* C13: a cache never returns an entry after its TTL: a cached analysis is
\* returned only at an age below CACHE_TTL, and window options only at an
\* age of at most WINDOW_SELECTION_TTL.
C13_NothingReturnedAfterTtl ==
  /\ lastRead.of = "analysis" =>
       \A i \in DOMAIN lastRead.returned : lastRead.returned[i] < CACHE_TTL
  /\ lastRead.of \in {"options", "allOptions"} =>
       \A i \in DOMAIN lastRead.returned : lastRead.returned[i] <= WINDOW_SELECTION_TTL

\* getAllCachedWindowOptions returns the options of one process and
\* passes over those of another, which were in the map, expired.
C13_Witness ==
  /\ lastRead.of = "allOptions"
  /\ Len(lastRead.returned) = 1
  /\ Len(lastRead.passedOver) = 1
  /\ lastRead.passedOver[1] > WINDOW_SELECTION_TTL

-----------------------------------------------------------------------------
(* Specification of the capture tool call: handleFunctionCall, case        *)
(* "capture_window_with_ocr", called again and again while the clock       *)
(* advances and windowSelectionCache keeps what earlier calls stored.      *)

MaxWinCalls == 2

\* process_name and window_title of the calls; the empty text stands for
\* an argument that is not given.
RequestedProcessNames == {<<>>, <<"c", "h", "r", "o", "m", "e">>, <<"d", "o", "c", "k", "e", "r", " ", "d", "e", "s", "k", "t", "o", "p">>}

RequestedWindowTitles ==
  {<<>>, <<"2">>, <<"s", "e", "c", "o", "n", "d">>, <<"o", "f", " ", "1", "2", " ", "p", "i", "c", "k", " ", "2">>, <<"I", "n", "b", "o", "x", " ", "-", " ", "C", "h", "r", "o", "m", "e">>, <<"d", "o", "c", "s">>,
   <<"t", "h", "e", " ", "d", "o", "c", "s", " ", "t", "a", "b">>, <<"c", "h", "r", "o", "m", "e">>, <<"i", "n", "b", "o", "x", " ", "z", "z", "z">>, <<"d", "o", "c", "s", " ", "z", "z", "z">>,
   <<"p", "a", "g", "e", " ", "1", " ", "-", " ", "c", "h", "r", "o", "m", "e">>}

NotListed == [invoked |-> FALSE, threw |-> FALSE, windows |-> <<>>]

NotResolved ==
  [ran |-> FALSE, processName |-> <<>>, requested |-> <<>>, target |-> NoTarget]

\* The entries getCachedWindowOptions / getAllCachedWindowOptions would
\* still return at clock value t.
LiveEntries(map, t) ==
  SelectSeq(map, LAMBDA e : t - e.timestamp <= WINDOW_SELECTION_TTL)

WinInit ==
  /\ PolicyIdle
  /\ ChatInit
  /\ TurnIdle
  /\ CacheIdle
  /\ WindowsIdle

\* The enumeration's outcome storing the options before looking at their
\* number.
ListedOutcome_CacheFirst(map, t, processName, windows) ==
  IF Len(windows) = 0
    THEN [map |-> cacheWindowOptions(map, t, processName, ToOptions(windows)),
          response |-> ToolResponse("noWindows", FALSE, "No windows found")]
    ELSE [map |-> cacheWindowOptions(map, t, processName, ToOptions(windows)),
          response |-> ToolResponse("multipleWindows", FALSE, "undefined")]

\* What follows an enumeration: the failure response for no window, or the
\* options stored and the multiple_windows_found response (which the
\* handler replaces by the capture when it listed a single window).
ListedOutcome(map, t, processName, windows) ==
  IF Len(windows) = 0
    THEN [map |-> map,
          response |-> ToolResponse("noWindows", FALSE, "No windows found")]
    ELSE [map |-> cacheWindowOptions(map, t, processName, ToOptions(windows)),
          response |-> ToolResponse("multipleWindows", FALSE, "undefined")]

\* handleFunctionCall is called with a capture_window_with_ocr call: with a
\* process_name and no window_title, listWindowsByProcess is invoked.
WinCall ==
  /\ winPc \in {"idle", "done"}
  /\ winCalls < MaxWinCalls
  /\ winCalls' = winCalls + 1
  /\ \E process_name \in RequestedProcessNames, window_title \in RequestedWindowTitles :
       /\ winArgs' = [process_name |-> process_name, window_title |-> window_title]
       /\ winPc' = IF Len(process_name) > 0 /\ Len(window_title) = 0
                     THEN "listWindows" ELSE "resolve"
       /\ winListed' = IF Len(process_name) > 0 /\ Len(window_title) = 0
                         THEN [NotListed EXCEPT !.invoked = TRUE] ELSE NotListed
  /\ winCacheAtListing' = windowSelectionCache
  /\ winResolved' = NotResolved
  /\ winLive' = <<>>
  /\ winCaptures' = <<>>
  /\ winResponse' = NoResponse
  /\ UNCHANGED clockVars
  /\ UNCHANGED outsideWindows

\* listWindowsByProcess settles in the handler.
WinWindowsListed ==
  /\ winPc = "listWindows"
  /\ \E threw \in BOOLEAN :
       \E windows \in (IF threw THEN {<<>>} ELSE HostWindowLists(winArgs.process_name)) :
         LET outcome == ListedOutcome(windowSelectionCache, now, winArgs.process_name,
                                      windows)
         IN  /\ winListed' = [invoked |-> TRUE, threw |-> threw, windows |-> windows]
             /\ IF threw
                  THEN /\ winResponse' = ToolResponse("failed", FALSE, "error.message")
                       /\ winPc' = "done"
                       /\ UNCHANGED <<windowSelectionCache, winArgs>>
                ELSE IF Len(windows) = 1
                  THEN /\ windowSelectionCache' = outcome.map
                       /\ winArgs' = [winArgs EXCEPT !.window_title = windows[1].title]
                       /\ winPc' = "resolve"
                       /\ UNCHANGED winResponse
                ELSE /\ windowSelectionCache' = outcome.map
                     /\ winResponse' = outcome.response
                     /\ winPc' = "done"
                     /\ UNCHANGED winArgs
  /\ UNCHANGED <<now, ticks, winCalls, winCacheAtListing, winResolved, winLive,
                 winCaptures>>
  /\ UNCHANGED outsideWindows

\* args once resolveWindowSelection has returned resolvedWindow.
ResolvedArgs(args, resolvedWindow) ==
  IF Len(args.window_title) > 0 /\ resolvedWindow.found
    THEN [process_name |-> IF Len(args.process_name) = 0
                             THEN resolvedWindow.processName
                             ELSE args.process_name,
          window_title |-> resolvedWindow.title]
    ELSE args

\* The handler from its resolveWindowSelection call on, resolution being
\* what that call returns.
WinResolveWith(resolution) ==
  /\ windowSelectionCache' = resolution.map
  /\ winResolved' = [ran |-> TRUE, processName |-> winArgs.process_name,
                     requested |-> winArgs.window_title,
                     target |-> resolution.target]
  /\ winLive' = LiveEntries(windowSelectionCache, now)
  /\ winArgs' = ResolvedArgs(winArgs, resolution.target)
  /\ IF ~resolution.target.found /\ Len(winArgs.process_name) > 0
       THEN /\ winPc' = "listAgain"
            /\ winListed' = [NotListed EXCEPT !.invoked = TRUE]
            /\ winCacheAtListing' = resolution.map
            /\ UNCHANGED winCaptures
       ELSE /\ winPc' = "captureWindow"
            /\ winCaptures' =
                 Append(winCaptures,
                        [processName |->
                           ResolvedArgs(winArgs, resolution.target).process_name,
                         windowTitle |->
                           ResolvedArgs(winArgs, resolution.target).window_title])
            /\ UNCHANGED <<winListed, winCacheAtListing>>

\* The handler goes on to the capture: a window_title is resolved against
\* the cache; unresolved with a process_name, the windows are listed again
\* by buildWindowSelectionPrompt; else captureWindowWithOCR is invoked.
WinResolve ==
  /\ winPc = "resolve"
  /\ IF Len(winArgs.window_title) > 0
       THEN WinResolveWith(resolveWindowSelection(windowSelectionCache, now,
                                                  winArgs.process_name,
                                                  winArgs.window_title))
       ELSE /\ winPc' = "captureWindow"
            /\ winCaptures' = Append(winCaptures,
                                     [processName |-> winArgs.process_name,
                                      windowTitle |-> winArgs.window_title])
            /\ UNCHANGED <<windowSelectionCache, winResolved, winLive, winArgs,
                           winListed, winCacheAtListing>>
  /\ UNCHANGED <<now, ticks, winCalls, winResponse>>
  /\ UNCHANGED outsideWindows

\* listWindowsByProcess settles in buildWindowSelectionPrompt.
WinWindowsListedAgain ==
  /\ winPc = "listAgain"
  /\ \E threw \in BOOLEAN :
       \E windows \in (IF threw THEN {<<>>} ELSE HostWindowLists(winArgs.process_name)) :
         LET outcome == ListedOutcome(windowSelectionCache, now, winArgs.process_name,
                                      windows)
         IN  /\ winListed' = [invoked |-> TRUE, threw |-> threw, windows |-> windows]
             /\ windowSelectionCache' =
                  IF threw THEN windowSelectionCache ELSE outcome.map
             /\ winResponse' =
                  IF threw THEN ToolResponse("failed", FALSE, "error.message")
                  ELSE outcome.response
  /\ winPc' = "done"
  /\ UNCHANGED <<now, ticks, winArgs, winCalls, winCacheAtListing, winResolved, winLive,
                 winCaptures>>
  /\ UNCHANGED outsideWindows

\* captureWindowWithOCR settles.
WinWindowCaptured ==
  /\ winPc = "captureWindow"
  /\ \E captured \in BOOLEAN :
       winResponse' = IF captured THEN ToolResponse("captured", TRUE, "undefined")
                      ELSE ToolResponse("failed", FALSE, "error.message")
  /\ winPc' = "done"
  /\ UNCHANGED <<clockVars, winArgs, winCalls, winListed, winCacheAtListing, winResolved,
                 winLive, winCaptures>>
  /\ UNCHANGED outsideWindows

WinNext ==
  \/ Tick
  \/ WinCall
  \/ WinWindowsListed
  \/ WinResolve
  \/ WinWindowsListedAgain
  \/ WinWindowCaptured

SpecWindows == WinInit /\ [][WinNext]_vars

-----------------------------------------------------------------------------
(* Properties of the capture tool call and of the resolver                 *)

\* C14: when listWindowsByProcess returns no window for the process asked
\* for, the call ends with a failure response (success false, the "No
\* windows found" error) that is not the caught-error response, without a
\* captureWindowWithOCR invocation, and with windowSelectionCache as it was
\* when the windows were listed: no entry is created.
C14_NoWindowsIsFailure ==
  (winPc = "done" /\ winListed.invoked /\ ~winListed.threw /\ winListed.windows = <<>>)
    => /\ winResponse.kind = "noWindows"
       /\ winResponse.success = FALSE
       /\ winResponse.error.text = "No windows found"
       /\ winCaptures = <<>>
       /\ windowSelectionCache = winCacheAtListing

\* No window is listed for a process while the cache holds options.
C14_Witness ==
  /\ winPc = "done"
  /\ winListed.invoked
  /\ ~winListed.threw
  /\ winListed.windows = <<>>
  /\ winResponse.kind = "noWindows"
  /\ Len(windowSelectionCache) > 0

\* The options cached, unexpired, for the process the resolver was asked
\* about, when it ran; none: the empty sequence.
OwnOptions ==
  LET own == SelectSeq(winLive,
                       LAMBDA e : e.key = ToLowerCase(Trim(winResolved.processName)))
  IN  IF Len(own) > 0 THEN own[1].options ELSE <<>>

\* The indexes 1..n a text names, by an ordinal word or by a number.
NamedIndexes(text, n) ==
  {k \in 1..n :
     \/ k <= Len(ORDINAL_WORDS) /\ Includes(ToLowerCase(text), ORDINAL_WORDS[k])
     \/ \E r \in DOMAIN DigitRuns(text) : ParseInt(DigitRuns(text)[r], 0) = k}

\* C15: with n options cached for the process, a request text that names
\* the index k (by an ordinal word or by a number, 1 <= k <= n) resolves to
\* the option at index k - 1, by the index pass.
C15_NamedIndexResolves ==
  \A k \in 1..Len(OwnOptions) :
    (winResolved.ran /\ NamedIndexes(winResolved.requested, Len(OwnOptions)) = {k})
      => /\ winResolved.target.found
         /\ winResolved.target.pass = "index"
         /\ winResolved.target.title = OwnOptions[k].title
         /\ winResolved.target.displayName = OwnOptions[k].displayName

\* The fuzzy score of option i of a cache entry for the text asked for.
EntryFuzzyScore(e, i) ==
  FuzzyScore(e.options[i],
             normalizeWindowText(Trim(StripQuotes(winResolved.requested))),
             Tokens(normalizeWindowText(Trim(StripQuotes(winResolved.requested)))))

\* C16: a target decided by the fuzzy pass is an option whose score is at
\* least 15 and the first of the options of the highest score; when no
\* option of any cached entry reaches 15 and no earlier pass decides, the
\* resolver returns nothing.
C16_FuzzyThresholdFirstWins ==
  winResolved.ran =>
    /\ winResolved.target.pass = "fuzzy" =>
         \E x \in DOMAIN winLive :
           \E i \in DOMAIN winLive[x].options :
             /\ winLive[x].options[i].title = winResolved.target.title
             /\ winLive[x].options[i].displayName = winResolved.target.displayName
             /\ EntryFuzzyScore(winLive[x], i) >= 15
             /\ \A j \in DOMAIN winLive[x].options :
                  /\ EntryFuzzyScore(winLive[x], j) <= EntryFuzzyScore(winLive[x], i)
                  /\ j < i => EntryFuzzyScore(winLive[x], j) < EntryFuzzyScore(winLive[x], i)
    /\ ( /\ winResolved.target.pass \in {"fuzzy", "none"}
         /\ \A x \in DOMAIN winLive :
              \A i \in DOMAIN winLive[x].options : EntryFuzzyScore(winLive[x], i) < 15 )
         => ~winResolved.target.found

\* The fuzzy pass decides between two options of the same highest score.
C16_Witness ==
  /\ winResolved.ran
  /\ winResolved.target.pass = "fuzzy"
  /\ \E x \in DOMAIN winLive :
       \E i, j \in DOMAIN winLive[x].options :
         /\ i < j
         /\ winLive[x].options[i].title = winResolved.target.title
         /\ EntryFuzzyScore(winLive[x], i) = EntryFuzzyScore(winLive[x], j)
         /\ \A h \in DOMAIN winLive[x].options :
              EntryFuzzyScore(winLive[x], h) <= EntryFuzzyScore(winLive[x], i)

\* C17: a target the resolver returns is an option of an unexpired cache
\* entry: its title and display name are that option's, and its process
\* name is the owner process name the enumeration gave that option.
C17_TargetIsCachedOption ==
  (winResolved.ran /\ winResolved.target.found) =>
    \E x \in DOMAIN winLive :
      \E i \in DOMAIN winLive[x].options :
        /\ winLive[x].options[i].title = winResolved.target.title
        /\ winLive[x].options[i].displayName = winResolved.target.displayName
        /\ winLive[x].options[i].processName = winResolved.target.processName

-----------------------------------------------------------------------------
(* The approval workflow with the promises of the host settling: an        *)
(* awaited executeCommand returns or throws, and a turn ends.              *)

SpecLive ==
  /\ Spec
  /\ WF_vars(ExecuteCommandSettles)
  /\ WF_vars(SendMessageSettles)
  /\ WF_vars(SendMessageReturns)

RemovedFromPending(id) ==
  /\ StatusOf(pendingCommands, id) # "absent"
  /\ StatusOf(pendingCommands', id) = "absent"

\* C21: a request leaves pendingCommands only in a step of an approve or
\* deny call whose follow-up message was submitted and answered (not
\* skipped because a turn was in flight, not failed), and every request
\* that was approved or denied is eventually removed.
C21_RemovedOnlyAfterSent ==
  /\ [][\A id \in RequestIds :
          RemovedFromPending(id)
            => \E c \in BagToSet(running) :
                 c.id = id /\ c.at = "sendMessage" /\ c.outcome = "sent"]_vars
  /\ \A id \in RequestIds :
       (StatusOf(pendingCommands, id) \in {"executing", "executed", "denied"})
         ~> (StatusOf(pendingCommands, id) = "absent")

-----------------------------------------------------------------------------
(* Turns with malformed calls, short answers and a cancelled reader        *)

LoopInit == TurnStart(LoopMessages, LoopShapes, AnswerLengths)

SpecLoop == LoopInit /\ [][TurnNext \/ TurnCancel]_vars

(* Turns over the messages and calls the scheduling looks at               *)

AugmentInit == TurnStart(AugmentMessages, AugmentShapes, {"long"})

SpecAugment == AugmentInit /\ [][TurnNext]_vars

-----------------------------------------------------------------------------
(* Properties of the loop over the turn's calls                            *)

\* C22: once the reader of the turn's stream is cancelled the handler
\* stops: no host capability is invoked any more, and no function response
\* and no prompt is sent to the reasoning service any more.
C22_StopsOnceCancelled ==
  [][cancelled => /\ turnExecuted' = turnExecuted
                  /\ toolResults' = toolResults
                  /\ prompts' = prompts]_vars


\* The follow-up prompts sent for the tool result at k.
FollowUpsFor(k) ==
  Cardinality({p \in DOMAIN prompts :
                 /\ prompts[p].kind = "followUp"
                 /\ prompts[p].index = toolResults[k].index})

\* C23: after a tool result that carries no image, the follow-up prompt is
\* sent exactly once when the reasoning service answered with no text or
\* with fewer than 50 characters, and not at all when the answer was longer
\* or the result was needs-approval or blocked.
C23_OneFollowUpWhenSilent ==
  cancelled \/
    \A k \in DOMAIN toolResults :
      ~HasImage(toolResults[k].response) =>
        FollowUpsFor(k) =
          IF /\ toolResults[k].answer \in {"none", "short"}
             /\ toolResults[k].response.kind \notin {"needsApproval", "blocked"}
            THEN 1 ELSE 0

\* The same for the results of execute_command calls only.
FollowUpAfterCommand ==
  cancelled \/
    \A k \in DOMAIN toolResults :
      toolResults[k].name = S_execute_command =>
        FollowUpsFor(k) =
          IF /\ toolResults[k].answer \in {"none", "short"}
             /\ toolResults[k].response.kind \notin {"needsApproval", "blocked"}
            THEN 1 ELSE 0


\* C24: when the last user message is a wrap-up acknowledgement, the turn
\* ends with the fixed short answer: no message, function response or
\* prompt goes to the reasoning service, no call is collected, and no window
\* listing, capture or command execution is invoked.
C24_WrapUpUsesNoTool ==
  lastUserMessage.wrapConversation =>
    /\ turnPhase \in {"start", "closed"}
    /\ prompts = <<>>
    /\ toolResults = <<>>
    /\ functionCalls = <<>>
    /\ turnExecuted = <<>>
    /\ inFlight = 0
    /\ commandRequests = <<>>

C24_Witness ==
  /\ lastUserMessage.text = "all good, just wanted to check"
  /\ turnPhase = "closed"
  /\ prompts = <<>>


\* The reasoning service asked for a capture of the Docker window and for
\* nothing else.
OnlyDockerCaptureAsked ==
  /\ Len(found) > 0
  /\ \A f \in DOMAIN found : found[f].shape = DockerCaptureShape

\* C25: when the user only asks whether the assistant sees the Docker app
\* and the reasoning service asks for a capture of the Docker window, the
\* calls of the turn are that capture alone: no execute_command call is
\* added to the list and none is executed.
C25_CanYouSeeOnlyCaptures ==
  (/\ lastUserMessage.text = "can you see my docker app?"
   /\ turnPhase \in {"loop", "closed"}
   /\ OnlyDockerCaptureAsked)
    => /\ Len(functionCalls) = 1
       /\ IsCapture(functionCalls[1])
       /\ \A k \in DOMAIN toolResults : toolResults[k].name # S_execute_command


\* How many calls the scheduling put in front of the collected ones.
InjectedCount == Len(functionCalls) - Len(FirstSeen(found, <<>>))

\* Two execute_command calls with the same command and arguments.
SameCommand(a, b) ==
  /\ IsExecuteCommand(a)
  /\ IsExecuteCommand(b)
  /\ CommandOf(a.args) = CommandOf(b.args)
  /\ ArgsOf(a.args) = ArgsOf(b.args)

\* The scheduling is done and the loop has not started its first call.
JustScheduled == turnPhase = "loop" /\ turnIndex = 1 /\ turnPc = "next"

C27_SkippedCaptureIsJustified ==
  \A k \in DOMAIN toolResults :
    toolResults[k].response.kind = "skipped" =>
      /\ toolResults[k].response.success
      /\ \A e \in DOMAIN turnExecuted : turnExecuted[e] # toolResults[k].index
      /\ ~lastUserMessage.isExplicitRequest
      /\ ~HasWindowTitle(functionCalls[toolResults[k].index])


\* The tool results sent for the call at index i.
ResultsFor(i) == {k \in DOMAIN toolResults : toolResults[k].index = i}

\* C28: a host capability is invoked at most once for a call of the turn;
\* a command or capture that failed or threw gives a function response with
\* success false and the error text, which is sent to the reasoning service
\* once; and the loop goes on: unless the reader was cancelled the turn
\* ends closed with a response sent for every call.
C28_FailureIsReportedOnce ==
  /\ \A a, b \in DOMAIN turnExecuted : turnExecuted[a] = turnExecuted[b] => a = b
  /\ \A e \in DOMAIN turnExecuted :
       turnExecuted[e] < turnIndex => Cardinality(ResultsFor(turnExecuted[e])) = 1
  /\ \A k \in DOMAIN toolResults :
       /\ (toolResults[k].response.kind = "output" /\ ~toolResults[k].response.success)
            => toolResults[k].response.error.text \in {"cmdResult.error", "error.message"}
       /\ toolResults[k].response.kind = "failed"
            => /\ ~toolResults[k].response.success
               /\ toolResults[k].response.error.text = "error.message"
  /\ cancelled \/ turnPhase # "errored"
  /\ (~cancelled /\ turnPhase = "closed") =>
       \A i \in DOMAIN functionCalls : Cardinality(ResultsFor(i)) = 1

C28_Witness ==
  /\ turnPhase = "closed"
  /\ ~cancelled
  /\ Len(functionCalls) = 2
  /\ turnExecuted = <<1, 2>>
  /\ Len(toolResults) = 2
  /\ toolResults[1].response.kind = "output"
  /\ toolResults[1].response.error.text = "error.message"
  /\ toolResults[2].response.kind = "failed"


\* C29: a function call of the response that has no usable name (no name,
\* a name that is not a string, an empty name) is dropped: no host
\* capability is invoked for it and no function response is sent to the
\* reasoning service for it; the other calls are handled and, unless the
\* reader was cancelled, the turn ends closed.
C29_NamelessCallIsDiscarded ==
  /\ \A e \in DOMAIN turnExecuted : functionCalls[turnExecuted[e]].name # <<>>
  /\ \A k \in DOMAIN toolResults : functionCalls[toolResults[k].index].name # <<>>
  /\ cancelled \/ turnPhase # "errored"

-----------------------------------------------------------------------------
(* A failing analysis                                                      *)

\* A performAnalysis call settles in this step.
AnalysisSettles == BagCardinality(analyzing') < BagCardinality(analyzing)

\* C30: when the analysis of a capture fails (the model is not initialised,
\* the request fails, the answer cannot be parsed), analyzeWindowCapture
\* returns null and does not throw, the cache is left as it was (no entry
\* is stored for the capture), and captureWindowWithOCR returns the capture
\* without an analysis.
C30_FailedAnalysisLeavesCapture ==
  [][(AnalysisSettles /\ lastCapture'.outcome # "analysis")
       => /\ lastCapture'.analyzeWindowCapture = "null"
          /\ lastCapture'.capture = "returned"
          /\ lastCapture'.analysis = "absent"
          /\ cache' = cache]_vars

C30_Witness ==
  /\ lastCapture.outcome = "unparsable"
  /\ lastCapture.capture = "returned"
  /\ lastCapture.analysis = "absent"
  /\ \A i \in DOMAIN cache : cache[i].key # lastCapture.key

-----------------------------------------------------------------------------
(* The end of a turn                                                       *)

\* The turn of SpecLoop in which every awaited call of the handler settles
\* (the reader may be cancelled or not).
SpecLoopLive == SpecLoop /\ WF_vars(TurnNext)

\* The stream of the turn is finished: closed, or errored.
TurnFinished == turnPhase \in {"closed", "errored"}

\* C31: when every call to the reasoning service and to the host returns,
\* the stream of a turn is eventually finished (closed or errored); it is
\* finished once, and after that nothing is sent, executed or enqueued; and
\* the work of the turn is bounded by the collected calls: each call is
\* handled at most once, with at most one host invocation, one function
\* response and one further prompt.
C31_TurnTerminates ==
  /\ <>TurnFinished
  /\ [][TurnFinished => /\ turnPhase' = turnPhase
                        /\ prompts' = prompts
                        /\ toolResults' = toolResults
                        /\ turnExecuted' = turnExecuted
                        /\ commandRequests' = commandRequests]_vars
  /\ [](/\ Len(toolResults) <= Len(functionCalls)
        /\ Len(turnExecuted) <= Len(functionCalls)
        /\ Len(prompts) <= 1 + Len(functionCalls)
        /\ \A i, j \in DOMAIN toolResults :
             i < j => toolResults[i].index < toolResults[j].index)

C31_Witness ==
  /\ turnPhase = "closed"
  /\ Len(functionCalls) = 2
  /\ Len(toolResults) = 2
  /\ Len(prompts) = 3

-----------------------------------------------------------------------------
(* The capture protocol                                                    *)

\* The entry of windowSelectionCache for processName holds the options of
\* the enumerated windows.
OptionsCached(map, processName, windows) ==
  \E i \in DOMAIN map :
    /\ map[i].key = ToLowerCase(Trim(processName))
    /\ map[i].options = ToOptions(windows)

-----------------------------------------------------------------------------
(* The rules of the table, one by one                                      *)

\* C33: every rule of allRules is effective: a call of the rule's own
\* command and argument prefix, as the table writes them, is given the
\* rule's level and category.
C33_EveryRuleIsEffective ==
  \A i \in DOMAIN allRules :
    (/\ Handled
     /\ polCall.command = allRules[i].command
     /\ polCall.args = allRules[i].argsPrefix)
      => /\ polResponse.policy.level = allRules[i].level
         /\ polResponse.policy.category = allRules[i].category

-----------------------------------------------------------------------------
(* A request that is a candidate's own title                               *)

\* The options of the process asked about whose title or display name is
\* the text asked for, letter-casing aside.
NamedByTitle ==
  {k \in DOMAIN OwnOptions :
     \/ ToLowerCase(OwnOptions[k].title) = ToLowerCase(winResolved.requested)
     \/ ToLowerCase(OwnOptions[k].displayName) = ToLowerCase(winResolved.requested)}

\* C34: when the text asked for is, letter-casing aside, the full title or
\* the display name of one of the options cached for the process, the
\* resolver returns that option, whatever numbers or ordinal words the
\* title holds and however many other options are cached.
C34_ExactTitleResolves ==
  \A k \in DOMAIN OwnOptions :
    (winResolved.ran /\ NamedByTitle = {k})
      => /\ winResolved.target.found
         /\ winResolved.target.title = OwnOptions[k].title
         /\ winResolved.target.displayName = OwnOptions[k].displayName

-----------------------------------------------------------------------------
(* What a capture is issued with                                           *)

\* The process name and the window title are those of one option of the
\* unexpired cache entries: the title is an option's of the entry kept for
\* the process name.
OneCachedWindow(processName, windowTitle) ==
  \E x \in DOMAIN winLive :
    /\ winLive[x].key = ToLowerCase(Trim(processName))
    /\ \E i \in DOMAIN winLive[x].options :
         winLive[x].options[i].title = windowTitle

\* C35: a capture issued after the resolver returned a window names one
\* enumerated window: its window title is the title of a window listed for
\* its process name, also when the call gave a process name and the window
\* was found by the search over all cached processes.
C35_CaptureNamesOneWindow ==
  (winResolved.ran /\ winResolved.target.found) =>
    \A c \in DOMAIN winCaptures :
      OneCachedWindow(winCaptures[c].processName, winCaptures[c].windowTitle)

(***************************************************************************)
(* What runs on approval                                                   *)
(***************************************************************************)

\* C36: the command that runs on approval is the one that was classified
\* and shown: every approve call invoked executeCommand with the command
\* and the argument list of the request handed to onCommandRequest under
\* its id, these are the command and arguments of a call the turn held,
\* and the request's policy is evaluateCommandPolicy of exactly them.
C36_ApprovedCommandIsTheClassifiedOne ==
  \A c \in BagToSet(running) :
    c.op = "approve" =>
      /\ c.id \in DOMAIN issued
      /\ c.ran.command = issued[c.id].command
      /\ c.ran.args = issued[c.id].args
      /\ \E call \in CommandCases :
           /\ c.ran.command = call.command
           /\ c.ran.args = call.args
           /\ issued[c.id].policy = evaluateCommandPolicy(call.command, call.args)

C36_Witness ==
  \E c \in BagToSet(running) :
    /\ c.op = "approve"
    /\ c.at = "executeCommand"
    /\ c.ran.command = S_flibbertigibbet
    /\ issued[c.id].policy.level = "approval_required"
    /\ issued[c.id].status = "pending"

(***************************************************************************)
(* The injected docker logs call and the full listing                      *)
(***************************************************************************)

\* The loop is about to handle the docker logs call the scheduling added:
\* pendingLogRequest is set only together with that call.
LogsCallIsNext ==
  /\ turnPhase = "loop"
  /\ LoopMayStart(turnPc)
  /\ turnIndex \in DOMAIN functionCalls
  /\ LogsPending(functionCalls[turnIndex], pendingLogRequest)

\* A docker ps -a call of the turn has been handled and answered.
FullListingDone ==
  \E k \in DOMAIN toolResults :
    IsDockerPs(functionCalls[toolResults[k].index], TRUE)

\* C37: when the loop comes to the docker logs call the scheduling added
\* for the container named in the user message, a docker ps -a call of the
\* same turn has been handled before it, whether the reasoning service
\* asked for calls of its own or for none.
C37_LogsAfterFullListing == LogsCallIsNext => FullListingDone

-----------------------------------------------------------------------------
(* A failing analysis at capacity                                          *)

\* The entries of map that cleanExpiredEntries would keep at clock value t.
Unexpired(map, t) ==
  {map[i] : i \in {j \in DOMAIN map : ~(t - map[j].timestamp > CACHE_TTL)}}

\* The analysis of a capture whose key the cache did not hold fails in this
\* step, and no other analyzeWindowCapture call ran beside it.
UncachedAnalysisFails ==
  /\ AnalysisSettles
  /\ lastCapture'.outcome # "analysis"
  /\ lastCapture'.key = callBegun.key
  /\ callBegun.alone
  /\ BagCardinality(analyzing) = 1
  /\ \A i \in DOMAIN callBegun.before : callBegun.before[i].key # callBegun.key

\* C38: a failed analysis leaves the analysis cache as it was: when
\* analyzeWindowCapture is called for a key the cache does not hold and the
\* analysis fails, the unexpired entries after the call are the unexpired
\* entries the call found, also when the cache is at capacity.
C38_FailedAnalysisKeepsEntries ==
  [][UncachedAnalysisFails
       => Unexpired(cache', now') = Unexpired(callBegun.before, now')]_vars

=============================================================================
